---- MODULE Spec2Model ----
(***************************************************************************)
(* Model of the doc-processor extraction and analysis core:                *)
(*   src/src/utils/document_extractor.py  (DocumentExtractor)              *)
(*   src/src/utils/image_utils.py         (image extraction)                *)
(*   src/src/models/document_analyzer.py  (DocumentAnalyzer)               *)
(*                                                                         *)
(* Document text is a sequence of characters, so that strip(), split()    *)
(* and concatenation are computed as Python computes them.  Messages and   *)
(* paths are TLA+ strings.  A Python call either returns a value or raises *)
(* an exception: both are values of the model (Return / Raise).            *)
(***************************************************************************)
EXTENDS Naturals, Sequences, FiniteSets, TLC

VARIABLES
    \* ---- one call on the DocumentExtractor (which has no mutable state)
    path,        \* the path given to the call: [stem, ext]
    file,        \* what is at that path and how each library behaves on it
    exPc,        \* "ready" | "done"
    exOp,        \* "none" | "extract" | "extract_with_images"
    exOut,       \* the outcome of the call (Return / Raise), NoOutcome before
    \* ---- the shared DocumentAnalyzer instance
    summarizer,      \* self.summarizer: 0 is None, n > 0 the n-th loaded handle
    classifier,      \* self.classifier: 0 is None, n > 0 the n-th loaded handle
    summarizerLoads, \* completed pipeline("summarization") loads
    classifierLoads, \* completed pipeline("zero-shot-classification") loads
    sentimentLoads,  \* completed pipeline("sentiment-analysis") loads
    \* ---- the callers of the analyzer, each at a position in its call
    pc,          \* caller -> position
    top,         \* caller -> the method it called (analyze, summarize, ...)
    text,        \* caller -> the text argument
    options,     \* caller -> the options argument
    results,     \* caller -> the results dict built so far
    used,        \* caller -> handles this call loaded or ran inference on
    failed,      \* caller -> models that raised during this call
    anOut,       \* caller -> outcome of the call (Return / Raise), NoOutcome before
    \* ---- one call of a helper that reads no state of the instance
    fnCall,      \* the helper and its argument: [fn, arg]
    fnOut,       \* the outcome of the call (Return / Raise), NoOutcome before
    \* ---- the HTTP layer (backend/app.py): the folders and the requests in progress
    content,     \* document id -> what extract and analyze do on its uploaded file
    metaStore,   \* document id -> PROCESSED_FOLDER/<id>.json: the dict, or NoMetadata
    uploadStore, \* document id -> whether the uploaded file is in UPLOAD_FOLDER
    resultStore, \* document id -> whether PROCESSED_FOLDER/<id>_results.json exists
    req          \* request -> the handler it runs, its locals, position and response

exVars == <<path, file, exPc, exOp, exOut>>
instVars == <<summarizer, classifier, summarizerLoads, classifierLoads, sentimentLoads>>
callVars == <<pc, top, text, options, results, used, failed, anOut>>
fnVars == <<fnCall, fnOut>>
storeVars == <<metaStore, uploadStore, resultStore>>
httpVars == <<content, metaStore, uploadStore, resultStore, req>>
vars == <<path, file, exPc, exOp, exOut,
          summarizer, classifier, summarizerLoads, classifierLoads, sentimentLoads,
          pc, top, text, options, results, used, failed, anOut, fnCall, fnOut,
          content, metaStore, uploadStore, resultStore, req>>

(***************************************************************************)
(* Bounds of the model.                                                    *)
(***************************************************************************)
MaxPages == 2
MaxPageLen == 2
MaxTextLen == 4
MaxParas == 2
MaxRows == 1
NumCallers == 2
MaxSentimentCalls == 2
MaxSentences == 4
MaxChunks == 3
MaxSymbolTextLen == 4
MaxMathPieces == 4
MaxExportChunks == 2
MaxWordLen == 4
MaxTokens == 3
NumDocs == 2
MaxBatch == 2
NumRequests == 2

(***************************************************************************)
(* Outcomes of a call.                                                     *)
(***************************************************************************)
Return(v, c) == [kind |-> "return", value |-> v, calls |-> c]
Raise(m, c) == [kind |-> "raise", msg |-> m, calls |-> c]
NoOutcome == [kind |-> "none"]

(***************************************************************************)
(* Characters and Python's str operations on them.                         *)
(***************************************************************************)
SP == " "
NL == "\n"
FF == "\f"
Whitespace == {SP, NL, FF}

Strings(alphabet, n) == UNION {[1..k -> alphabet] : k \in 0..n}
SeqsUpTo(S, n) == UNION {[1..k -> S] : k \in 0..n}

\* str.strip(): remove leading and trailing whitespace
Strip(s) ==
    LET keep == {i \in 1..Len(s) : s[i] \notin Whitespace}
    IN  IF keep = {} THEN <<>>
        ELSE SubSeq(s, CHOOSE i \in keep : \A j \in keep : i <= j,
                       CHOOSE i \in keep : \A j \in keep : i >= j)

\* str.split(c): the segments between the occurrences of c (never empty list)
RECURSIVE SplitFrom(_, _, _)
SplitFrom(s, c, cur) ==
    IF s = <<>> THEN <<cur>>
    ELSE IF Head(s) = c THEN <<cur>> \o SplitFrom(Tail(s), c, <<>>)
    ELSE SplitFrom(Tail(s), c, Append(cur, Head(s)))
Split(s, c) == SplitFrom(s, c, <<>>)

\* sep.join(parts)
RECURSIVE Join(_, _)
Join(parts, sep) ==
    IF parts = <<>> THEN <<>>
    ELSE IF Len(parts) = 1 THEN parts[1]
    ELSE parts[1] \o sep \o Join(Tail(parts), sep)

\* "".join(p + suffix for p in parts)
RECURSIVE ConcatEach(_, _)
ConcatEach(parts, suffix) ==
    IF parts = <<>> THEN <<>>
    ELSE parts[1] \o suffix \o ConcatEach(Tail(parts), suffix)

Truthy(s) == s # <<>>
NonBlank(s) == Strip(s) # <<>>
MapStrip(parts) == [i \in 1..Len(parts) |-> Strip(parts[i])]

(***************************************************************************)
(* Paths.  os.path.splitext(file_path.lower()) gives the lowercased        *)
(* extension; str.lower() is modelled on the extensions of the model.      *)
(***************************************************************************)
Exts == {".pdf", ".PDF", ".docx", ".Docx", ".doc", ".DOC", ".txt", ".TXT", ".rtf", ""}
Lower(e) ==
    CASE e = ".PDF" -> ".pdf"
      [] e = ".Docx" -> ".docx"
      [] e = ".DOC" -> ".doc"
      [] e = ".TXT" -> ".txt"
      [] OTHER -> e
Paths == [stem : {"report"}, ext : Exts]
PathStr(p) == p.stem \o p.ext
\* the extension taken from the path as written, upper case kept
SplitExt_CaseSensitive(p) == p.ext

SplitExt(p) == Lower(p.ext)
Basename(p) == PathStr(p)

(***************************************************************************)
(* The file at a path: whether it exists, and what each third-party        *)
(* library does when it is run on it (returns content, or raises).         *)
(***************************************************************************)
ExcMsgs == {"", "bad file"}
PageTexts == Strings({"a", SP}, MaxPageLen)
FullTexts == Strings({"a", SP, FF}, MaxTextLen)
PlainTexts == {<<>>, <<"a">>, <<SP>>, <<"a", NL, "b">>, <<NL, "a", SP>>}
ParaTexts == {<<>>, <<"a">>, <<SP>>}
CellTexts == {<<>>, <<"c">>}
ImageLists == {<<>>, <<"img1">>}

\* PyPDF2.PdfReader(file): metadata (None/empty or a dict), page.extract_text() per page
Pypdf2Lib ==
    [raises : {TRUE}, msg : ExcMsgs, meta : {FALSE}, pages : {<<>>}]
    \cup [raises : {FALSE}, msg : {""}, meta : BOOLEAN, pages : SeqsUpTo(PageTexts, MaxPages)]
\* pdfminer.high_level.extract_text(path)
PdfminerLib ==
    [raises : {TRUE}, msg : ExcMsgs, text : {<<>>}]
    \cup [raises : {FALSE}, msg : {""}, text : FullTexts]
\* docx.Document(path): core properties, paragraphs, table rows (two cells a row)
DocxLib ==
    [raises : {TRUE}, msg : ExcMsgs, props : {FALSE}, paras : {<<>>}, rows : {<<>>}]
    \cup [raises : {FALSE}, msg : {""}, props : BOOLEAN,
          paras : SeqsUpTo(ParaTexts, MaxParas),
          rows : SeqsUpTo([1..2 -> CellTexts], MaxRows)]
\* textract.process(path).decode('utf-8')
TextractLib ==
    [raises : {TRUE}, msg : ExcMsgs, text : {<<>>}]
    \cup [raises : {FALSE}, msg : {""}, text : PlainTexts]
\* open(path, encoding='utf-8').read(): the text, a UnicodeDecodeError, or another error
Utf8Lib ==
    [kind : {"decode_error", "os_error"}, msg : ExcMsgs, text : {<<>>}]
    \cup [kind : {"ok"}, msg : {""}, text : PlainTexts]
\* open(path, encoding='latin-1').read()
Latin1Lib ==
    [raises : {TRUE}, msg : ExcMsgs, text : {<<>>}]
    \cup [raises : {FALSE}, msg : {""}, text : PlainTexts]
\* extract_images_from_pdf / extract_images_from_docx on the path (fitz, python-docx,
\* OCR and hashing): the image samples, or an exception of any of these
ImageLib ==
    [raises : {TRUE}, msg : {"cannot open"}, images : {<<>>}]
    \cup [raises : {FALSE}, msg : {""}, images : ImageLists]

\* a library that the call never reaches on this file
Unreached == [raises |-> TRUE, msg |-> "", text |-> <<>>]

\* the libraries the handlers of an extension consult, on a file that exists
LibsOf(ext) ==
    CASE ext = ".pdf" ->
            {[pypdf2 |-> p, pdfminer |-> m, images |-> i] :
                p \in {q \in Pypdf2Lib : ~q.raises}, m \in {Unreached}, i \in ImageLib}
            \cup {[pypdf2 |-> p, pdfminer |-> m, images |-> i] :
                p \in {q \in Pypdf2Lib : q.raises}, m \in PdfminerLib, i \in ImageLib}
      [] ext = ".docx" -> [docx : DocxLib, images : ImageLib]
      [] ext = ".txt" ->
            {[utf8 |-> u, latin1 |-> l] :
                u \in {v \in Utf8Lib : v.kind # "decode_error"}, l \in {Unreached}}
            \cup {[utf8 |-> u, latin1 |-> l] :
                u \in {v \in Utf8Lib : v.kind = "decode_error"}, l \in Latin1Lib}
      [] OTHER -> [textract : TextractLib]

\* a path with nothing behind it: every library that opens it raises
MissingLibs ==
    [images |-> [raises |-> TRUE, msg |-> "cannot open", images |-> <<>>]]

FilesAt(p) ==
    {[exists |-> TRUE, lib |-> l] : l \in LibsOf(SplitExt(p))}
    \cup {[exists |-> FALSE, lib |-> MissingLibs]}

(***************************************************************************)
(* DocumentExtractor.  Every operator gives the outcome of the Python      *)
(* function of the same name on the file f at path p; "calls" lists the    *)
(* functions that ran, in order.                                           *)
(***************************************************************************)
PdfMetadata(present) ==
    IF present
    THEN [title |-> "T", author |-> "A", subject |-> "", creator |-> "", producer |-> "P"]
    ELSE <<>>

\* the per-page strategy with one newline, not a blank line, after each page
ExtractFromPdfWithPypdf2_SingleNewline(p, f) ==
    LET lib == f.lib.pypdf2
        pages == SelectSeq(lib.pages, Truthy)
        full_text == ConcatEach(pages, <<NL>>)
    IN  IF lib.raises
        THEN Raise(lib.msg, <<"_extract_from_pdf_with_pypdf2">>)
        ELSE Return([text |-> Strip(full_text),
                     metadata |-> PdfMetadata(lib.meta),
                     pages |-> pages,
                     page_count |-> Len(lib.pages)],
                    <<"_extract_from_pdf_with_pypdf2">>)

ExtractFromPdfWithPypdf2(p, f) ==
    LET lib == f.lib.pypdf2
        pages == SelectSeq(lib.pages, Truthy)
        full_text == ConcatEach(pages, <<NL, NL>>)
    IN  IF lib.raises
        THEN Raise(lib.msg, <<"_extract_from_pdf_with_pypdf2">>)
        ELSE Return([text |-> Strip(full_text),
                     metadata |-> PdfMetadata(lib.meta),
                     pages |-> pages,
                     page_count |-> Len(lib.pages)],
                    <<"_extract_from_pdf_with_pypdf2">>)

\* the whole-document strategy keeping the pages as split, without p.strip()
ExtractFromPdfWithPdfminer_NoStrip(p, f) ==
    LET lib == f.lib.pdfminer
        full_text == lib.text
        pages == SelectSeq(Split(full_text, FF), NonBlank)
    IN  IF lib.raises
        THEN Raise(lib.msg, <<"_extract_from_pdf_with_pdfminer">>)
        ELSE Return([text |-> Strip(full_text),
                     metadata |-> <<>>,
                     pages |-> pages,
                     page_count |-> Len(pages)],
                    <<"_extract_from_pdf_with_pdfminer">>)

ExtractFromPdfWithPdfminer(p, f) ==
    LET lib == f.lib.pdfminer
        full_text == lib.text
        pages == MapStrip(SelectSeq(Split(full_text, FF), NonBlank))
    IN  IF lib.raises
        THEN Raise(lib.msg, <<"_extract_from_pdf_with_pdfminer">>)
        ELSE Return([text |-> Strip(full_text),
                     metadata |-> <<>>,
                     pages |-> pages,
                     page_count |-> Len(pages)],
                    <<"_extract_from_pdf_with_pdfminer">>)

ExtractFromPdf(p, f) ==
    LET first == ExtractFromPdfWithPypdf2(p, f)
        second == ExtractFromPdfWithPdfminer(p, f)
    IN  IF first.kind = "raise"
        THEN [second EXCEPT !.calls = <<"_extract_from_pdf">> \o first.calls \o second.calls]
        ELSE [first EXCEPT !.calls = <<"_extract_from_pdf">> \o first.calls]

DocxMetadata(present) ==
    IF present
    THEN [title |-> "T", author |-> "A", subject |-> "S",
          created |-> "2024-01-01 00:00:00", modified |-> "2024-01-02 00:00:00"]
    ELSE [title |-> "", author |-> "", subject |-> "", created |-> "", modified |-> ""]

\* " | ".join(cell.text for cell in row.cells if cell.text)
RowText(row) == Join(SelectSeq(row, Truthy), <<SP, "|", SP>>)

ExtractFromDocx(p, f) ==
    LET lib == f.lib.docx
        paragraphs == SelectSeq(lib.paras, Truthy)
        row_texts == SelectSeq([i \in 1..Len(lib.rows) |-> RowText(lib.rows[i])], Truthy)
        full_text == ConcatEach(paragraphs, <<NL>>) \o ConcatEach(row_texts, <<NL>>)
    IN  IF lib.raises
        THEN Raise(lib.msg, <<"_extract_from_docx">>)
        ELSE Return([text |-> Strip(full_text),
                     metadata |-> DocxMetadata(lib.props),
                     paragraphs |-> paragraphs],
                    <<"_extract_from_docx">>)

\* the DOC handler answering a failure with an empty text next to the error
ExtractFromDoc_TextWithError(p, f) ==
    LET lib == f.lib.textract
    IN  IF lib.raises
        THEN Return([text |-> <<>>, error |-> "DOC extraction failed: " \o lib.msg],
                    <<"_extract_from_doc">>)
        ELSE Return([text |-> Strip(lib.text), metadata |-> <<>>], <<"_extract_from_doc">>)

ExtractFromDoc(p, f) ==
    LET lib == f.lib.textract
    IN  IF lib.raises
        THEN Return([error |-> "DOC extraction failed: " \o lib.msg], <<"_extract_from_doc">>)
        ELSE Return([text |-> Strip(lib.text), metadata |-> <<>>], <<"_extract_from_doc">>)

TxtResult(p, raw, encoding) ==
    [text |-> Strip(raw),
     metadata |-> IF encoding = "utf-8"
                  THEN [filename |-> Basename(p), size |-> Len(raw)]
                  ELSE [filename |-> Basename(p), size |-> Len(raw), encoding |-> encoding],
     lines |-> Split(raw, NL)]

\* the plain-text handler whose except clause reports the decode failure at once
ExtractFromTxt_NoRetry(p, f) ==
    LET u == f.lib.utf8
    IN  CASE u.kind = "ok" ->
                Return(TxtResult(p, u.text, "utf-8"), <<"_extract_from_txt", "open utf-8">>)
          [] u.kind = "os_error" -> Raise(u.msg, <<"_extract_from_txt", "open utf-8">>)
          [] u.kind = "decode_error" ->
                Return([error |-> "Text extraction failed: " \o u.msg],
                       <<"_extract_from_txt", "open utf-8">>)

\* calls lists the handler and then each open(file_path, 'r', encoding=...) it made
ExtractFromTxt(p, f) ==
    LET u == f.lib.utf8
        l == f.lib.latin1
        first == <<"_extract_from_txt", "open utf-8">>
        both == first \o <<"open latin-1">>
    IN  CASE u.kind = "ok" -> Return(TxtResult(p, u.text, "utf-8"), first)
          [] u.kind = "os_error" -> Raise(u.msg, first)
          [] u.kind = "decode_error" ->
                IF l.raises
                THEN Return([error |-> "Text extraction failed: " \o l.msg], both)
                ELSE Return(TxtResult(p, l.text, "latin-1"), both)

ExtractWithTextract(p, f) ==
    LET lib == f.lib.textract
    IN  IF lib.raises
        THEN Return([error |-> "Unsupported file type extraction failed: " \o lib.msg],
                    <<"_extract_with_textract">>)
        ELSE Return([text |-> Strip(lib.text),
                     metadata |-> [filename |-> Basename(p), size |-> Len(lib.text)]],
                    <<"_extract_with_textract">>)

\* self.supported_extensions
SupportedExtensions == {".pdf", ".docx", ".doc", ".txt"}
Handler(ext, p, f) ==
    CASE ext = ".pdf" -> ExtractFromPdf(p, f)
      [] ext = ".docx" -> ExtractFromDocx(p, f)
      [] ext = ".doc" -> ExtractFromDoc(p, f)
      [] ext = ".txt" -> ExtractFromTxt(p, f)

\* extract whose not-found message leaves the path out
Extract_NotFoundNoPath(p, f) ==
    LET ext == SplitExt(p)
    IN  IF ~f.exists
        THEN Return([error |-> "File not found"], <<>>)
        ELSE IF ext \notin SupportedExtensions
        THEN ExtractWithTextract(p, f)
        ELSE LET r == Handler(ext, p, f)
             IN  IF r.kind = "raise"
                 THEN Return([error |-> "Extraction failed: " \o r.msg], r.calls)
                 ELSE r

\* extract calling the handler outside any try block
Extract_NoTry(p, f) ==
    LET ext == SplitExt(p)
    IN  IF ~f.exists
        THEN Return([error |-> "File not found: " \o PathStr(p)], <<>>)
        ELSE IF ext \notin SupportedExtensions
        THEN ExtractWithTextract(p, f)
        ELSE Handler(ext, p, f)

\* DocumentExtractor.extract
Extract(p, f) ==
    LET ext == SplitExt(p)
    IN  IF ~f.exists
        THEN Return([error |-> "File not found: " \o PathStr(p)], <<>>)
        ELSE IF ext \notin SupportedExtensions
        THEN ExtractWithTextract(p, f)
        ELSE LET r == Handler(ext, p, f)
             IN  IF r.kind = "raise"
                 THEN Return([error |-> "Extraction failed: " \o r.msg], r.calls)
                 ELSE r

\* image_utils.extract_images_from_pdf / extract_images_from_docx
ExtractImagesFromPdf(p, f) ==
    IF f.lib.images.raises
    THEN Raise(f.lib.images.msg, <<"extract_images_from_pdf">>)
    ELSE Return(f.lib.images.images, <<"extract_images_from_pdf">>)

ExtractImagesFromDocx(p, f) ==
    IF f.lib.images.raises
    THEN Raise(f.lib.images.msg, <<"extract_images_from_docx">>)
    ELSE Return(f.lib.images.images, <<"extract_images_from_docx">>)

\* DocumentExtractor.extract_with_images
ExtractWithImages(p, f) ==
    LET base == Extract(p, f)
        ext == SplitExt(p)
        images == CASE ext = ".pdf" -> ExtractImagesFromPdf(p, f)
                    [] ext = ".docx" -> ExtractImagesFromDocx(p, f)
                    [] OTHER -> Return(<<>>, <<>>)
    IN  IF base.kind = "raise" THEN base
        ELSE IF images.kind = "raise"
        THEN Raise(images.msg, base.calls \o images.calls)
        ELSE Return(("images" :> images.value) @@ base.value, base.calls \o images.calls)

(***************************************************************************)
(* DocumentAnalyzer: arguments.                                            *)
(* A text is known by its counts: characters, whitespace-separated words   *)
(* (text.split()), tokens (word_tokenize), tokens holding a letter (alpha),*)
(* sentences (sent_tokenize) and the chunks analyze_sentiment packs its    *)
(* sentences into.  It is blank (empty or whitespace only) iff it has no   *)
(* word.  A text above max_token_count words also has a head: the text     *)
(* " ".join(words[:max_token_count]) that summarize cuts it down to.       *)
(***************************************************************************)
min_length == 40
max_token_count == 1024
sentences_count == 3
sentiment_max_token_count == 512

Callers == 1..NumCallers

\* "", "  ", "12 34.", a three-word sentence, five sentences of 39 and of 40 words
Texts ==
    {[chars |-> 0, words |-> 0, tokens |-> 0, alpha |-> 0, sentences |-> 0, chunks |-> 0],
     [chars |-> 2, words |-> 0, tokens |-> 0, alpha |-> 0, sentences |-> 0, chunks |-> 0],
     [chars |-> 6, words |-> 2, tokens |-> 3, alpha |-> 0, sentences |-> 1, chunks |-> 1],
     [chars |-> 11, words |-> 3, tokens |-> 4, alpha |-> 3, sentences |-> 1, chunks |-> 1],
     [chars |-> 230, words |-> min_length - 1, tokens |-> 44, alpha |-> min_length - 1,
      sentences |-> 5, chunks |-> 1],
     [chars |-> 236, words |-> min_length, tokens |-> 45, alpha |-> min_length,
      sentences |-> 5, chunks |-> 1]}
NoText ==
    [chars |-> 0, words |-> 0, tokens |-> 0, alpha |-> 0, sentences |-> 0, chunks |-> 0]

\* the first max_token_count words of a longer text, holding n of its sentences
HeadText(n) ==
    [chars |-> 6 * max_token_count - 1, words |-> max_token_count,
     tokens |-> max_token_count + n, alpha |-> max_token_count,
     sentences |-> n, chunks |-> 2]

\* texts at and above max_token_count words, of few and of many sentences
LongTexts ==
    {[chars |-> 240, words |-> min_length, tokens |-> 42, alpha |-> min_length,
      sentences |-> 2, chunks |-> 1],
     [chars |-> 6 * max_token_count - 1, words |-> max_token_count,
      tokens |-> max_token_count + 2, alpha |-> max_token_count,
      sentences |-> 2, chunks |-> 2],
     [chars |-> 6 * max_token_count + 7, words |-> max_token_count + 1,
      tokens |-> max_token_count + 3, alpha |-> max_token_count + 1,
      sentences |-> 2, chunks |-> 2, head |-> HeadText(2)],
     [chars |-> 6 * max_token_count + 7, words |-> max_token_count + 1,
      tokens |-> max_token_count + 7, alpha |-> max_token_count + 1,
      sentences |-> 6, chunks |-> 3, head |-> HeadText(6)]}

\* the text argument of a direct call of summarize, extract_topics,
\* analyze_sentiment or calculate_readability
DirectTexts == Texts \cup LongTexts

\* summarize keeping the text it was given for its except clause
Truncate_Never(t) == t

\* summarize: "if len(words) > max_token_count: text = ' '.join(words[:max_token_count])"
Truncate(t) == IF t.words > max_token_count THEN t.head ELSE t

OptionKeys == {"keywords", "entities", "summary", "topics", "sentiment", "readability"}
BaseKeys == {"text_length", "word_count", "sentence_count"}
OptionMaps == UNION {[S -> BOOLEAN] : S \in SUBSET OptionKeys}
\* the options argument: None (not given) or a dict
OptionArgs == {[given |-> FALSE, map |-> <<>>]} \cup [given : {TRUE}, map : OptionMaps]
NoOptions == [given |-> FALSE, map |-> <<>>]

\* the test "if not text" alone
IsBlank_EmptyOnly(t) == t.chars = 0

\* "if not text or not text.strip()"
IsBlank(t) == t.words = 0

\* the dict that analyze substitutes for options=None
DefaultOptions ==
    [keywords |-> TRUE, entities |-> TRUE, summary |-> TRUE,
     topics |-> TRUE, sentiment |-> FALSE, readability |-> TRUE]
\* every options.get(key, True), the sentiment one included
GetDefault_AllTrue(k) == TRUE

\* the second argument of options.get(key, default) in analyze
GetDefault(k) == IF k = "sentiment" THEN FALSE ELSE TRUE
\* dict.get
DictGet(m, k, d) == IF k \in DOMAIN m THEN m[k] ELSE d
\* whether analyze runs the section k under the options argument o
OptionEnabled(o, k) ==
    DictGet(IF o.given THEN o.map ELSE DefaultOptions, k, GetDefault(k))

\* the results dict before the optional sections
AnalyzeBase(t) ==
    [text_length |-> t.chars, word_count |-> t.tokens, sentence_count |-> t.sentences]

(***************************************************************************)
(* DocumentAnalyzer: the sections.  lib is what the third-party call of    *)
(* the section does on this text: "ok" or "raise".                         *)
(***************************************************************************)
LibRuns == {"ok", "raise"}

\* extract_keywords: TfidfVectorizer.fit_transform raises ValueError on a text whose
\* sentences hold only stop words or punctuation; nothing in the method catches it
ExtractKeywords(t, lib) ==
    IF lib = "raise" THEN Raise("empty vocabulary", <<>>)
    ELSE Return(<<[keyword |-> "k1", score |-> 2], [keyword |-> "k2", score |-> 1]>>, <<>>)

\* extract_entities: self.nlp(text) raises on a text above spaCy's max_length
ExtractEntities(t, lib) ==
    IF lib = "raise" THEN Raise("text exceeds max_length", <<>>)
    ELSE Return([ORG |-> <<"Acme">>], <<>>)

\* the short-text test taken one word too low
SummarizeReturnsText_OneBelow(t) == t.words < min_length - 1

\* summarize, "if len(text.split()) < min_length: return text"
SummarizeReturnsText(t) == t.words < min_length

\* _load_summarizer / _load_classifier: "if self.<handle> is None"
NeedsLoad(handle) == handle = 0

\* summarize, the model's answer: summary[0]['summary_text']
AbstractiveSummary(t, handle) == Return([kind |-> "abstractive", by |-> handle], <<>>)

\* summarize without its except clause: the model's exception leaves summarize
SummarizeOnError_Propagates(t, msg) == Raise(msg, <<>>)

(***************************************************************************)
(* _extractive_summarize on a document given as its sentences               *)
(* (sent_tokenize), each sentence as its tokens (word_tokenize); the text   *)
(* of the document is its sentences separated by single spaces.  A word     *)
(* frequency is kept as its count: the code divides every count by the one  *)
(* max_frequency, which leaves the order of the sentence scores as it is.   *)
(***************************************************************************)
StopWords == {"the"}
IsAlnum(w) == w # "."
LowerWord(w) == IF w = "Cat" THEN "cat" ELSE w
Sentences ==
    {<<"the", ".">>, <<"cat", ".">>, <<"dog", ".">>, <<"Cat", "dog", ".">>,
     <<"the", "cat", ".">>, <<"dog", "dog", ".">>}
Docs == SeqsUpTo(Sentences, MaxSentences)
DocText(doc) == Join(doc, <<SP>>)

\* word_tokenize(sentence.lower())
SentenceTokens(sentence) == [i \in DOMAIN sentence |-> LowerWord(sentence[i])]

\* word_frequencies[w] before the normalisation; 0 when w is not a key
RECURSIVE WordFrequency(_, _)
WordFrequency(doc, w) ==
    IF doc = <<>> \/ w \in StopWords \/ ~IsAlnum(w) THEN 0
    ELSE Cardinality({i \in DOMAIN Head(doc) : SentenceTokens(Head(doc))[i] = w})
         + WordFrequency(Tail(doc), w)

\* the sum of word_frequencies[word] over the tokens of a sentence that are keys
RECURSIVE SumFrequencies(_, _)
SumFrequencies(doc, tokens) ==
    IF tokens = <<>> THEN 0
    ELSE WordFrequency(doc, Head(tokens)) + SumFrequencies(doc, Tail(tokens))

\* sentence_scores: an entry only for a sentence holding a token that is a key
SentenceScores(doc) ==
    LET scored == {i \in DOMAIN doc :
                      \E j \in DOMAIN doc[i] :
                          WordFrequency(doc, SentenceTokens(doc[i])[j]) > 0}
    IN  [i \in scored |-> SumFrequencies(doc, SentenceTokens(doc[i]))]

\* sorted(sentence_scores.items(), key=score, reverse=True)[:n]: the sort is stable,
\* so of two equal scores the earlier sentence comes first
TopSentenceIndices(doc, n) ==
    LET sc == SentenceScores(doc)
        Before(i, j) == sc[i] > sc[j] \/ (sc[i] = sc[j] /\ i < j)
    IN  {i \in DOMAIN sc : Cardinality({j \in DOMAIN sc : Before(j, i)}) < n}

\* the sentences of the index set S in document order
RECURSIVE Pick(_, _)
Pick(doc, S) ==
    IF S = {} THEN <<>>
    ELSE LET i == CHOOSE k \in S : \A j \in S : k <= j
         IN  <<doc[i]>> \o Pick(doc, S \ {i})

ExtractiveSummarize(doc, n) ==
    IF Len(doc) <= n THEN Return(DocText(doc), <<>>)
    ELSE Return(Join(Pick(doc, TopSentenceIndices(doc, n)), <<SP>>), <<>>)

\* _extractive_summarize on a text of counts: the text itself when it has at most
\* sentences_count sentences, else a selection of its sentences
ExtractiveSummary(t) ==
    IF t.sentences <= sentences_count
    THEN [kind |-> "text", of |-> t]
    ELSE [kind |-> "extractive", of |-> t]

\* summarize, the except clause: _extractive_summarize(text, sentences_count=3),
\* t being what the variable text holds when the exception arrives
SummarizeOnError(t, msg) == Return(ExtractiveSummary(t), <<>>)

\* extract_topics, the classifier's first num_topics labels
TopicsResult(t, handle) ==
    Return(<<[topic |-> "science", confidence |-> 3],
             [topic |-> "technology", confidence |-> 2],
             [topic |-> "health", confidence |-> 1]>>, <<>>)

\* extract_topics, the except clause: return []
TopicsOnError(t, msg) == Return(<<>>, <<>>)

\* Sentiment numbers.  A confidence is counted in hundredths (90 is 0.90); a
\* quotient a / b is kept as the pair of a and b, and two quotients are the same
\* number when they agree cross-multiplied.
Frac(a, b) == [num |-> a, den |-> b]
FracEq(x, y) == x.num * y.den = y.num * x.den
\* the literal 0.5, in hundredths
Half == Frac(50, 1)

\* sentiment_analyzer(chunk)[0]: a label and a confidence
ChunkLabels == {"POSITIVE", "NEGATIVE"}
Confidences == {60, 90}
ChunkOutcomes == [label : ChunkLabels, score : Confidences]

\* sum(r['score'] for r in results if r['label'] == l)
RECURSIVE SumScores(_, _)
SumScores(rs, l) ==
    IF rs = <<>> THEN 0
    ELSE (IF Head(rs).label = l THEN Head(rs).score ELSE 0) + SumScores(Tail(rs), l)
\* sum(1 for r in results if r['label'] == l)
CountLabel(rs, l) == Cardinality({i \in DOMAIN rs : rs[i].label = l})

\* the aggregation whose score divides by the chunks that voted for the winner
AggregateSentiment_DivideByVoters(rs) ==
    LET pos == CountLabel(rs, "POSITIVE")
        neg == CountLabel(rs, "NEGATIVE")
        ps == SumScores(rs, "POSITIVE")
        ns == SumScores(rs, "NEGATIVE")
        positive == pos > neg \/ (pos = neg /\ ps >= ns)
    IN  IF rs = <<>>
        THEN [label |-> "NEUTRAL", score |-> Half]
        ELSE [label |-> IF positive THEN "POSITIVE" ELSE "NEGATIVE",
              score |-> IF positive THEN Frac(ps, pos) ELSE Frac(ns, neg),
              positive_ratio |-> Frac(pos, Len(rs)),
              negative_ratio |-> Frac(neg, Len(rs))]

\* analyze_sentiment from "if not results" on: rs are the classified chunks
AggregateSentiment(rs) ==
    LET pos == CountLabel(rs, "POSITIVE")
        neg == CountLabel(rs, "NEGATIVE")
        ps == SumScores(rs, "POSITIVE")
        ns == SumScores(rs, "NEGATIVE")
        positive == pos > neg \/ (pos = neg /\ ps >= ns)
    IN  IF rs = <<>>
        THEN [label |-> "NEUTRAL", score |-> Half]
        ELSE [label |-> IF positive THEN "POSITIVE" ELSE "NEGATIVE",
              score |-> Frac(IF positive THEN ps ELSE ns, Len(rs)),
              positive_ratio |-> Frac(pos, Len(rs)),
              negative_ratio |-> Frac(neg, Len(rs))]

\* analyze_sentiment after the chunks are classified
SentimentResult(rs) == Return(AggregateSentiment(rs), <<>>)

\* analyze_sentiment without its except clause
SentimentOnError_Propagates(t, msg) == Raise(msg, <<>>)

\* analyze_sentiment, the except clause
SentimentOnError(t, msg) ==
    Return([label |-> "NEUTRAL", score |-> Half, error |-> msg], <<>>)

\* calculate_readability: "if not words or not sentences" returns before any
\* division; else the five metrics, computed with guarded divisions
CalculateReadability(t) ==
    IF t.alpha = 0 \/ t.sentences = 0
    THEN Return([flesch_reading_ease |-> 0, flesch_kincaid_grade |-> 0,
                 complex_word_ratio |-> 0], <<>>)
    ELSE Return([flesch_reading_ease |-> "fre", flesch_kincaid_grade |-> "fkg",
                 complex_word_ratio |-> "cwr", avg_words_per_sentence |-> "wps",
                 avg_syllables_per_word |-> "spw"], <<>>)

(***************************************************************************)
(* The HTTP layer, backend/app.py.  A document is known by its id; its     *)
(* metadata is PROCESSED_FOLDER/<id>.json, its file is in UPLOAD_FOLDER    *)
(* and its results are PROCESSED_FOLDER/<id>_results.json.  The handlers   *)
(* share the module-level document_extractor and document_analyzer; what   *)
(* these do on a document's file is the document's content: "good" (text   *)
(* extracted and analysed), "extract_error" (extract returns an error      *)
(* result) or "analyze_raises" (extract returns text, analyze raises).     *)
(* A handler is a sequence of steps, one per access to the folders; a      *)
(* read or a write of one file is one step.  Timestamps are left out.      *)
(***************************************************************************)
DocIds == 1..NumDocs
Requests == 1..NumRequests
Contents == {"good", "extract_error", "analyze_raises"}

NoMetadata == [status |-> "none"]
\* the metadata upload_document writes
UploadedMetadata(id) == [id |-> id, status |-> "uploaded"]
\* metadata['status'] = 'processed'; ['word_count'] = ...; ['has_analysis'] = True
ProcessedMetadata(md, wc) ==
    [k \in DOMAIN md \cup {"status", "word_count", "has_analysis"} |->
        CASE k = "status" -> "processed"
          [] k = "word_count" -> wc
          [] k = "has_analysis" -> TRUE
          [] OTHER -> md[k]]

\* document_extractor.extract(file_path) on the document's file: the file-not-found
\* error when the file is gone, else the error or the text of its content
ExtractStored(id, stored, kind) ==
    IF ~stored THEN [error |-> "File not found"]
    ELSE IF kind = "extract_error" THEN [error |-> "Extraction failed"]
    ELSE [text |-> "text", metadata |-> "metadata"]
\* document_analyzer.analyze(extraction_result['text'], options)
AnalyzeStored(kind) ==
    IF kind = "analyze_raises" THEN Raise("empty vocabulary", <<>>)
    ELSE Return([word_count |-> 3, char_count |-> 11], <<>>)

\* the extraction result is taken as good whatever it holds
ExtractionFailed_Never(extraction_result) == FALSE
\* if 'error' in extraction_result
ExtractionFailed(extraction_result) == "error" \in DOMAIN extraction_result

\* jsonify(...), status
NoResponse == [code |-> 0, success |-> FALSE, error |-> "", results |-> <<>>]
Failure(code, msg) == [code |-> code, success |-> FALSE, error |-> msg, results |-> <<>>]
Success(rs) == [code |-> 200, success |-> TRUE, error |-> "", results |-> rs]

\* a request slot before its request arrives
IdleRequest ==
    [op |-> "none", pc |-> "idle", id |-> 0, has_ids |-> FALSE, ids |-> <<>>, i |-> 0,
     metadata |-> NoMetadata, word_count |-> 0, results |-> <<>>, out |-> NoResponse,
     before |-> <<>>]
\* the folders as the request finds them on arrival
Folders == [meta |-> metaStore, uploads |-> uploadStore, results |-> resultStore]

Responds(r, resp) == req' = [req EXCEPT ![r].pc = "done", ![r].out = resp]

\* ---- process_document(document_id)
\* the request arrives; os.path.exists(metadata_path)
ProcessCheck(r) ==
    /\ req[r].pc = "idle"
    /\ \E id \in DocIds :
          req' = [req EXCEPT ![r] =
                    IF metaStore[id] = NoMetadata
                    THEN [IdleRequest EXCEPT !.op = "process", !.id = id, !.pc = "done",
                              !.before = Folders,
                              !.out = Failure(404, "Document not found")]
                    ELSE [IdleRequest EXCEPT !.op = "process", !.id = id, !.pc = "read",
                              !.before = Folders]]
    /\ UNCHANGED <<content, storeVars, fnVars, exVars, instVars, callVars>>

\* json.load of the metadata; a missing file raises into the except clause
ProcessRead(r) ==
    /\ req[r].op = "process" /\ req[r].pc = "read"
    /\ IF metaStore[req[r].id] = NoMetadata
       THEN Responds(r, Failure(500, "Error processing document"))
       ELSE req' = [req EXCEPT ![r].metadata = metaStore[req[r].id], ![r].pc = "extract"]
    /\ UNCHANGED <<content, storeVars, fnVars, exVars, instVars, callVars>>

\* extract, the test for 'error', analyze, and the update of the local metadata
ProcessExtract(r) ==
    /\ req[r].op = "process" /\ req[r].pc = "extract"
    /\ LET id == req[r].id
           extraction_result == ExtractStored(id, uploadStore[id], content[id])
           analysis_result == AnalyzeStored(content[id])
       IN  IF ExtractionFailed(extraction_result)
           THEN Responds(r, Failure(500, extraction_result.error))
           ELSE IF analysis_result.kind = "raise"
           THEN Responds(r, Failure(500, "Error processing document"))
           ELSE req' = [req EXCEPT
                           ![r].metadata =
                               ProcessedMetadata(@, analysis_result.value.word_count),
                           ![r].word_count = analysis_result.value.word_count,
                           ![r].pc = "write_metadata"]
    /\ UNCHANGED <<content, storeVars, fnVars, exVars, instVars, callVars>>

\* with open(metadata_path, 'w'): json.dump(metadata, f)
ProcessWriteMetadata(r) ==
    /\ req[r].op = "process" /\ req[r].pc = "write_metadata"
    /\ metaStore' = [metaStore EXCEPT ![req[r].id] = req[r].metadata]
    /\ req' = [req EXCEPT ![r].pc = "write_results"]
    /\ UNCHANGED <<content, uploadStore, resultStore, fnVars, exVars, instVars, callVars>>

\* with open(results_path, 'w'): json.dump(result, f); the success response
ProcessWriteResults(r) ==
    /\ req[r].op = "process" /\ req[r].pc = "write_results"
    /\ resultStore' = [resultStore EXCEPT ![req[r].id] = TRUE]
    /\ Responds(r, Success(<<>>))
    /\ UNCHANGED <<content, metaStore, uploadStore, fnVars, exVars, instVars, callVars>>

\* ---- delete_document(document_id)
DeleteCheck(r) ==
    /\ req[r].pc = "idle"
    /\ \E id \in DocIds :
          req' = [req EXCEPT ![r] =
                    IF metaStore[id] = NoMetadata
                    THEN [IdleRequest EXCEPT !.op = "delete", !.id = id, !.pc = "done",
                              !.before = Folders,
                              !.out = Failure(404, "Document not found")]
                    ELSE [IdleRequest EXCEPT !.op = "delete", !.id = id, !.pc = "read",
                              !.before = Folders]]
    /\ UNCHANGED <<content, storeVars, fnVars, exVars, instVars, callVars>>

DeleteRead(r) ==
    /\ req[r].op = "delete" /\ req[r].pc = "read"
    /\ IF metaStore[req[r].id] = NoMetadata
       THEN Responds(r, Failure(500, "Error deleting document"))
       ELSE req' = [req EXCEPT ![r].metadata = metaStore[req[r].id],
                               ![r].pc = "remove_file"]
    /\ UNCHANGED <<content, storeVars, fnVars, exVars, instVars, callVars>>

\* if os.path.exists(file_path): os.remove(file_path)
DeleteFile(r) ==
    /\ req[r].op = "delete" /\ req[r].pc = "remove_file"
    /\ uploadStore' = [uploadStore EXCEPT ![req[r].id] = FALSE]
    /\ req' = [req EXCEPT ![r].pc = "remove_metadata"]
    /\ UNCHANGED <<content, metaStore, resultStore, fnVars, exVars, instVars, callVars>>

\* os.remove(metadata_path); a missing file raises into the except clause
DeleteMetadata(r) ==
    /\ req[r].op = "delete" /\ req[r].pc = "remove_metadata"
    /\ IF metaStore[req[r].id] = NoMetadata
       THEN /\ Responds(r, Failure(500, "Error deleting document"))
            /\ UNCHANGED metaStore
       ELSE /\ metaStore' = [metaStore EXCEPT ![req[r].id] = NoMetadata]
            /\ req' = [req EXCEPT ![r].pc = "remove_results"]
    /\ UNCHANGED <<content, uploadStore, resultStore, fnVars, exVars, instVars, callVars>>

\* if os.path.exists(results_path): os.remove(results_path); the success response
DeleteResults(r) ==
    /\ req[r].op = "delete" /\ req[r].pc = "remove_results"
    /\ resultStore' = [resultStore EXCEPT ![req[r].id] = FALSE]
    /\ Responds(r, Success(<<>>))
    /\ UNCHANGED <<content, metaStore, uploadStore, fnVars, exVars, instVars, callVars>>

\* ---- batch_process()
FailureEntry(id, msg) == [document_id |-> id, success |-> FALSE, error |-> msg]
SuccessEntry(id, wc) == [document_id |-> id, success |-> TRUE, word_count |-> wc]

\* the entry is appended and the loop goes to the next id
NextId(r, entry) ==
    req' = [req EXCEPT ![r].results = Append(@, entry), ![r].i = @ + 1,
                       ![r].pc = "loop", ![r].metadata = NoMetadata]

\* the request arrives; a body without document_ids is answered with 400
BatchStart(r) ==
    /\ req[r].pc = "idle"
    /\ \/ req' = [req EXCEPT ![r] =
                     [IdleRequest EXCEPT !.op = "batch", !.pc = "done", !.before = Folders,
                          !.out = Failure(400, "No document IDs provided")]]
       \/ \E ids \in SeqsUpTo(DocIds, MaxBatch) :
             req' = [req EXCEPT ![r] =
                       [IdleRequest EXCEPT !.op = "batch", !.pc = "loop", !.has_ids = TRUE,
                            !.ids = ids, !.i = 1, !.before = Folders]]
    /\ UNCHANGED <<content, storeVars, fnVars, exVars, instVars, callVars>>

\* for doc_id in document_ids: os.path.exists(metadata_path); after the last id
\* the success response with the entries
BatchCheck(r) ==
    /\ req[r].op = "batch" /\ req[r].pc = "loop"
    /\ IF req[r].i > Len(req[r].ids)
       THEN Responds(r, Success(req[r].results))
       ELSE IF metaStore[req[r].ids[req[r].i]] = NoMetadata
       THEN NextId(r, FailureEntry(req[r].ids[req[r].i], "Document not found"))
       ELSE req' = [req EXCEPT ![r].pc = "read"]
    /\ UNCHANGED <<content, storeVars, fnVars, exVars, instVars, callVars>>

\* json.load of the metadata; a missing file raises into the one except clause
\* around the loop
BatchRead(r) ==
    /\ req[r].op = "batch" /\ req[r].pc = "read"
    /\ LET id == req[r].ids[req[r].i]
       IN  IF metaStore[id] = NoMetadata
           THEN Responds(r, Failure(500, "Error in batch processing"))
           ELSE req' = [req EXCEPT ![r].metadata = metaStore[id], ![r].pc = "extract"]
    /\ UNCHANGED <<content, storeVars, fnVars, exVars, instVars, callVars>>

BatchExtract(r) ==
    /\ req[r].op = "batch" /\ req[r].pc = "extract"
    /\ LET id == req[r].ids[req[r].i]
           extraction_result == ExtractStored(id, uploadStore[id], content[id])
           analysis_result == AnalyzeStored(content[id])
       IN  IF ExtractionFailed(extraction_result)
           THEN NextId(r, FailureEntry(id, extraction_result.error))
           ELSE IF analysis_result.kind = "raise"
           THEN Responds(r, Failure(500, "Error in batch processing"))
           ELSE req' = [req EXCEPT
                           ![r].metadata =
                               ProcessedMetadata(@, analysis_result.value.word_count),
                           ![r].word_count = analysis_result.value.word_count,
                           ![r].pc = "write_metadata"]
    /\ UNCHANGED <<content, storeVars, fnVars, exVars, instVars, callVars>>

BatchWriteMetadata(r) ==
    /\ req[r].op = "batch" /\ req[r].pc = "write_metadata"
    /\ metaStore' = [metaStore EXCEPT ![req[r].ids[req[r].i]] = req[r].metadata]
    /\ req' = [req EXCEPT ![r].pc = "write_results"]
    /\ UNCHANGED <<content, uploadStore, resultStore, fnVars, exVars, instVars, callVars>>

BatchWriteResults(r) ==
    /\ req[r].op = "batch" /\ req[r].pc = "write_results"
    /\ resultStore' = [resultStore EXCEPT ![req[r].ids[req[r].i]] = TRUE]
    /\ NextId(r, SuccessEntry(req[r].ids[req[r].i], req[r].word_count))
    /\ UNCHANGED <<content, metaStore, uploadStore, fnVars, exVars, instVars, callVars>>

\* no document stored and no request
InitNoHttp ==
    /\ content = [id \in DocIds |-> "good"]
    /\ metaStore = [id \in DocIds |-> NoMetadata]
    /\ uploadStore = [id \in DocIds |-> FALSE]
    /\ resultStore = [id \in DocIds |-> FALSE]
    /\ req = [r \in Requests |-> IdleRequest]

\* each id is either unknown or that of a document upload_document has stored
InitFolders ==
    /\ content \in [DocIds -> Contents]
    /\ uploadStore \in [DocIds -> BOOLEAN]
    /\ metaStore = [id \in DocIds |->
                       IF uploadStore[id] THEN UploadedMetadata(id) ELSE NoMetadata]
    /\ resultStore = [id \in DocIds |-> FALSE]
    /\ req = [r \in Requests |-> IdleRequest]

(***************************************************************************)
(* Initial states.                                                         *)
(***************************************************************************)
InitAnalyzer ==
    /\ summarizer = 0
    /\ classifier = 0
    /\ summarizerLoads = 0
    /\ classifierLoads = 0
    /\ sentimentLoads = 0
    /\ pc = [t \in Callers |-> "idle"]
    /\ top = [t \in Callers |-> "none"]
    /\ text = [t \in Callers |-> NoText]
    /\ options = [t \in Callers |-> NoOptions]
    /\ results = [t \in Callers |-> <<>>]
    /\ used = [t \in Callers |-> {}]
    /\ failed = [t \in Callers |-> {}]
    /\ anOut = [t \in Callers |-> NoOutcome]

\* no helper call in progress
InitNoHelper ==
    /\ fnCall = [fn |-> "none", arg |-> <<>>]
    /\ fnOut = NoOutcome

\* no extraction in progress
InitNoExtract ==
    /\ path = [stem |-> "report", ext |-> ""]
    /\ file = [exists |-> FALSE, lib |-> MissingLibs]
    /\ exPc = "off"
    /\ exOp = "none"
    /\ exOut = NoOutcome

\* a path and the file behind it, about to be handed to the extractor
InitExtract ==
    /\ path \in Paths
    /\ file \in FilesAt(path)
    /\ exPc = "ready"
    /\ exOp = "none"
    /\ exOut = NoOutcome
    /\ InitAnalyzer
    /\ InitNoHelper
    /\ InitNoHttp

Init == InitNoExtract /\ InitAnalyzer /\ InitNoHelper /\ InitNoHttp

(***************************************************************************)
(* Extraction calls.                                                       *)
(***************************************************************************)
ExtractCall ==
    /\ exPc = "ready"
    /\ exPc' = "done"
    /\ exOp' = "extract"
    /\ exOut' = Extract(path, file)
    /\ UNCHANGED <<httpVars, path, file, instVars, callVars, fnVars>>

ExtractWithImagesCall ==
    /\ exPc = "ready"
    /\ exPc' = "done"
    /\ exOp' = "extract_with_images"
    /\ exOut' = ExtractWithImages(path, file)
    /\ UNCHANGED <<httpVars, path, file, instVars, callVars, fnVars>>

(***************************************************************************)
(* Analyzer calls, one caller t stepping through its call.                 *)
(***************************************************************************)
Goto(t, l) == pc' = [pc EXCEPT ![t] = l]

\* the section "key" of caller t ended with outcome o: analyze stores a returned
\* value under the key and goes on to nxt; a direct call returns it; an exception
\* leaves the call
SectionEnds(t, key, o, nxt) ==
    IF o.kind = "raise"
    THEN /\ anOut' = [anOut EXCEPT ![t] = o]
         /\ Goto(t, "done")
         /\ UNCHANGED results
    ELSE IF top[t] = "analyze"
    THEN /\ results' = [results EXCEPT ![t] = (key :> o.value) @@ @]
         /\ Goto(t, nxt)
         /\ UNCHANGED anOut
    ELSE /\ anOut' = [anOut EXCEPT ![t] = o]
         /\ Goto(t, "done")
         /\ UNCHANGED results

SectionOn(t, key) == top[t] # "analyze" \/ OptionEnabled(options[t], key)

AnalyzeStart(t) ==
    /\ pc[t] = "idle"
    /\ \E tx \in Texts, o \in OptionArgs :
        /\ (~IsBlank(tx) /\ OptionEnabled(o, "sentiment"))
              => sentimentLoads < MaxSentimentCalls
        /\ top' = [top EXCEPT ![t] = "analyze"]
        /\ text' = [text EXCEPT ![t] = tx]
        /\ options' = [options EXCEPT ![t] = o]
        /\ IF IsBlank(tx)
           THEN /\ anOut' = [anOut EXCEPT ![t] =
                        Return([error |-> "Empty text provided for analysis"], <<>>)]
                /\ Goto(t, "done")
                /\ UNCHANGED results
           ELSE /\ results' = [results EXCEPT ![t] = AnalyzeBase(tx)]
                /\ Goto(t, "keywords")
                /\ UNCHANGED anOut
    /\ UNCHANGED <<httpVars, fnVars, exVars, instVars, used, failed>>

KeywordsStep(t) ==
    /\ pc[t] = "keywords"
    /\ IF OptionEnabled(options[t], "keywords")
       THEN \E lib \in LibRuns :
                SectionEnds(t, "keywords", ExtractKeywords(text[t], lib), "entities")
       ELSE Goto(t, "entities") /\ UNCHANGED <<results, anOut>>
    /\ UNCHANGED <<httpVars, fnVars, exVars, instVars, top, text, options, used, failed>>

EntitiesStep(t) ==
    /\ pc[t] = "entities"
    /\ IF OptionEnabled(options[t], "entities")
       THEN \E lib \in LibRuns :
                SectionEnds(t, "entities", ExtractEntities(text[t], lib), "summary")
       ELSE Goto(t, "summary") /\ UNCHANGED <<results, anOut>>
    /\ UNCHANGED <<httpVars, fnVars, exVars, instVars, top, text, options, used, failed>>

\* a direct call of summarize(text)
SummarizeStart(t) ==
    /\ pc[t] = "idle"
    /\ \E tx \in DirectTexts :
        /\ top' = [top EXCEPT ![t] = "summarize"]
        /\ text' = [text EXCEPT ![t] = tx]
    /\ Goto(t, "summary")
    /\ UNCHANGED <<httpVars, fnVars, exVars, instVars, options, results, used, failed, anOut>>

\* summarize up to the lazy load
SummaryStep(t) ==
    /\ pc[t] = "summary"
    /\ IF ~SectionOn(t, "summary")
       THEN Goto(t, "topics") /\ UNCHANGED <<results, anOut>>
       ELSE IF SummarizeReturnsText(text[t])
       THEN SectionEnds(t, "summary", Return([kind |-> "text", of |-> text[t]], <<>>), "topics")
       ELSE Goto(t, "sum_check") /\ UNCHANGED <<results, anOut>>
    /\ UNCHANGED <<httpVars, fnVars, exVars, instVars, top, text, options, used, failed>>

\* _load_summarizer: the test "self.summarizer is None"
SummarizerCheck(t) ==
    /\ pc[t] = "sum_check"
    /\ Goto(t, IF NeedsLoad(summarizer) THEN "sum_load" ELSE "sum_call")
    /\ UNCHANGED <<httpVars, fnVars, exVars, instVars, top, text, options, results, used, failed, anOut>>

\* _load_summarizer: self.summarizer = pipeline("summarization", ...)
SummarizerLoad(t) ==
    /\ pc[t] = "sum_load"
    /\ \E lib \in LibRuns :
        IF lib = "ok"
        THEN /\ summarizerLoads' = summarizerLoads + 1
             /\ summarizer' = summarizerLoads + 1
             /\ used' = [used EXCEPT ![t] = @ \cup {<<"summarizer load", summarizerLoads + 1>>}]
             /\ Goto(t, "sum_call")
             /\ UNCHANGED <<results, anOut, failed>>
        ELSE /\ failed' = [failed EXCEPT ![t] = @ \cup {"summary"}]
             /\ used' = [used EXCEPT ![t] = @ \cup {<<"summarizer load", 0>>}]
             /\ SectionEnds(t, "summary", SummarizeOnError(text[t], "load failed"), "topics")
             /\ UNCHANGED <<summarizer, summarizerLoads>>
    /\ UNCHANGED <<httpVars, fnVars, exVars, classifier, classifierLoads, sentimentLoads,
                   top, text, options>>

\* summarize: the truncation, then self.summarizer(text, ...)
SummarizerCall(t) ==
    /\ pc[t] = "sum_call"
    /\ used' = [used EXCEPT ![t] = @ \cup {<<"summarizer", summarizer>>}]
    /\ \E lib \in LibRuns :
        IF lib = "ok"
        THEN /\ SectionEnds(t, "summary",
                            AbstractiveSummary(Truncate(text[t]), summarizer), "topics")
             /\ UNCHANGED failed
        ELSE /\ failed' = [failed EXCEPT ![t] = @ \cup {"summary"}]
             /\ SectionEnds(t, "summary",
                            SummarizeOnError(Truncate(text[t]), "model failed"), "topics")
    /\ UNCHANGED <<httpVars, fnVars, exVars, instVars, top, text, options>>

\* a direct call of extract_topics(text)
TopicsStart(t) ==
    /\ pc[t] = "idle"
    /\ \E tx \in DirectTexts :
        /\ top' = [top EXCEPT ![t] = "extract_topics"]
        /\ text' = [text EXCEPT ![t] = tx]
    /\ Goto(t, "topics")
    /\ UNCHANGED <<httpVars, fnVars, exVars, instVars, options, results, used, failed, anOut>>

\* extract_topics up to the lazy load
TopicsStep(t) ==
    /\ pc[t] = "topics"
    /\ Goto(t, IF SectionOn(t, "topics") THEN "cls_check" ELSE "sentiment")
    /\ UNCHANGED <<httpVars, fnVars, exVars, instVars, top, text, options, results, used, failed, anOut>>

\* _load_classifier: the test "self.classifier is None"
ClassifierCheck(t) ==
    /\ pc[t] = "cls_check"
    /\ Goto(t, IF NeedsLoad(classifier) THEN "cls_load" ELSE "cls_call")
    /\ UNCHANGED <<httpVars, fnVars, exVars, instVars, top, text, options, results, used, failed, anOut>>

\* _load_classifier: self.classifier = pipeline("zero-shot-classification", ...)
ClassifierLoad(t) ==
    /\ pc[t] = "cls_load"
    /\ \E lib \in LibRuns :
        IF lib = "ok"
        THEN /\ classifierLoads' = classifierLoads + 1
             /\ classifier' = classifierLoads + 1
             /\ used' = [used EXCEPT ![t] = @ \cup {<<"classifier load", classifierLoads + 1>>}]
             /\ Goto(t, "cls_call")
             /\ UNCHANGED <<results, anOut, failed>>
        ELSE /\ failed' = [failed EXCEPT ![t] = @ \cup {"topics"}]
             /\ used' = [used EXCEPT ![t] = @ \cup {<<"classifier load", 0>>}]
             /\ SectionEnds(t, "topics", TopicsOnError(text[t], "load failed"), "sentiment")
             /\ UNCHANGED <<classifier, classifierLoads>>
    /\ UNCHANGED <<httpVars, fnVars, exVars, summarizer, summarizerLoads, sentimentLoads,
                   top, text, options>>

\* extract_topics: self.classifier(text, candidate_topics)
ClassifierCall(t) ==
    /\ pc[t] = "cls_call"
    /\ used' = [used EXCEPT ![t] = @ \cup {<<"classifier", classifier>>}]
    /\ \E lib \in LibRuns :
        IF lib = "ok"
        THEN /\ SectionEnds(t, "topics", TopicsResult(text[t], classifier), "sentiment")
             /\ UNCHANGED failed
        ELSE /\ failed' = [failed EXCEPT ![t] = @ \cup {"topics"}]
             /\ SectionEnds(t, "topics", TopicsOnError(text[t], "model failed"), "sentiment")
    /\ UNCHANGED <<httpVars, fnVars, exVars, instVars, top, text, options>>

\* analyze_sentiment: pipeline("sentiment-analysis") on every call, then the chunks
SentimentRuns == {"load_raises", "model_raises", "ok"}
SentimentStep(t) ==
    /\ pc[t] = "sentiment"
    /\ IF SectionOn(t, "sentiment")
       THEN \E lib \in SentimentRuns :
            \* the classifier can only raise on a chunk
            /\ lib = "model_raises" => text[t].chunks > 0
            /\ sentimentLoads' = IF lib = "load_raises" THEN sentimentLoads
                                 ELSE sentimentLoads + 1
            /\ used' = [used EXCEPT ![t] =
                    IF lib = "load_raises"
                    THEN @ \cup {<<"sentiment load", 0>>}
                    ELSE IF text[t].chunks = 0
                    THEN @ \cup {<<"sentiment load", sentimentLoads + 1>>}
                    ELSE @ \cup {<<"sentiment load", sentimentLoads + 1>>,
                                 <<"sentiment", sentimentLoads + 1>>}]
            /\ IF lib = "ok"
               THEN /\ \E rs \in [1..text[t].chunks -> ChunkOutcomes] :
                        SectionEnds(t, "sentiment", SentimentResult(rs), "readability")
                    /\ UNCHANGED failed
               ELSE /\ failed' = [failed EXCEPT ![t] = @ \cup {"sentiment"}]
                    /\ SectionEnds(t, "sentiment", SentimentOnError(text[t], lib), "readability")
       ELSE /\ Goto(t, "readability")
            /\ UNCHANGED <<results, anOut, failed, sentimentLoads, used>>
    /\ UNCHANGED <<httpVars, fnVars, exVars, summarizer, classifier, summarizerLoads, classifierLoads,
                   top, text, options>>

\* a direct call of analyze_sentiment(text)
SentimentStart(t) ==
    /\ pc[t] = "idle"
    /\ sentimentLoads < MaxSentimentCalls
    /\ \E tx \in DirectTexts :
        /\ top' = [top EXCEPT ![t] = "analyze_sentiment"]
        /\ text' = [text EXCEPT ![t] = tx]
    /\ Goto(t, "sentiment")
    /\ UNCHANGED <<httpVars, fnVars, exVars, instVars, options, results, used, failed, anOut>>

\* a direct call of calculate_readability(text)
ReadabilityStart(t) ==
    /\ pc[t] = "idle"
    /\ \E tx \in DirectTexts :
        /\ top' = [top EXCEPT ![t] = "calculate_readability"]
        /\ text' = [text EXCEPT ![t] = tx]
    /\ Goto(t, "readability")
    /\ UNCHANGED <<httpVars, fnVars, exVars, instVars, options, results, used, failed, anOut>>

\* calculate_readability, then "return results"
ReadabilityStep(t) ==
    /\ pc[t] = "readability"
    /\ LET o == CalculateReadability(text[t])
           final == IF OptionEnabled(options[t], "readability") /\ o.kind = "return"
                    THEN ("readability" :> o.value) @@ results[t]
                    ELSE results[t]
       IN  IF top[t] # "analyze"
           THEN anOut' = [anOut EXCEPT ![t] = o] /\ UNCHANGED results
           ELSE
           /\ results' = [results EXCEPT ![t] = final]
           /\ anOut' = [anOut EXCEPT ![t] =
                   IF OptionEnabled(options[t], "readability") /\ o.kind = "raise"
                   THEN o ELSE Return(final, <<>>)]
    /\ Goto(t, "done")
    /\ UNCHANGED <<httpVars, fnVars, exVars, instVars, top, text, options, used, failed>>

\* the caller takes the outcome and is free for its next call
Finish(t) ==
    /\ pc[t] = "done"
    /\ Goto(t, "idle")
    /\ top' = [top EXCEPT ![t] = "none"]
    /\ text' = [text EXCEPT ![t] = NoText]
    /\ options' = [options EXCEPT ![t] = NoOptions]
    /\ results' = [results EXCEPT ![t] = <<>>]
    /\ used' = [used EXCEPT ![t] = {}]
    /\ failed' = [failed EXCEPT ![t] = {}]
    /\ anOut' = [anOut EXCEPT ![t] = NoOutcome]
    /\ UNCHANGED <<httpVars, fnVars, exVars, instVars>>

(***************************************************************************)
(* Specifications.                                                         *)
(*   Spec         one caller makes analyze calls, one after the other, on  *)
(*                one DocumentAnalyzer instance                            *)
(*   SpecExtract  one extract / extract_with_images call on a path         *)
(*   SpecShared   the callers of Callers run summarize / extract_topics    *)
(*                concurrently on one shared instance (app.py keeps one    *)
(*                module-level document_analyzer for all requests)         *)
(*   SpecDirect   one caller makes direct calls of summarize,              *)
(*                analyze_sentiment and calculate_readability              *)
(*   SpecHelper   one call of _extractive_summarize on a document given    *)
(*                as its sentences, or of the sentiment aggregation on     *)
(*                given chunk classifications                              *)
(***************************************************************************)
Next ==
    \/ AnalyzeStart(1)
    \/ KeywordsStep(1)
    \/ EntitiesStep(1)
    \/ SummaryStep(1)
    \/ SummarizerCheck(1)
    \/ SummarizerLoad(1)
    \/ SummarizerCall(1)
    \/ TopicsStep(1)
    \/ ClassifierCheck(1)
    \/ ClassifierLoad(1)
    \/ ClassifierCall(1)
    \/ SentimentStep(1)
    \/ ReadabilityStep(1)
    \/ Finish(1)

Spec == Init /\ [][Next]_vars

\* one caller makes direct calls of the analyzer's public methods other than
\* analyze, one after the other, on one instance
NextDirect ==
    \/ SummarizeStart(1)
    \/ SummaryStep(1)
    \/ SummarizerCheck(1)
    \/ SummarizerLoad(1)
    \/ SummarizerCall(1)
    \/ SentimentStart(1)
    \/ SentimentStep(1)
    \/ ReadabilityStart(1)
    \/ ReadabilityStep(1)
    \/ Finish(1)

SpecDirect == Init /\ [][NextDirect]_vars

NextExtract == ExtractCall \/ ExtractWithImagesCall

(***************************************************************************)
(* symbol_utils.  A text is the sequence of the code points of its         *)
(* characters (ord(char)); Python indexes a str by code point, from 0.     *)
(***************************************************************************)
\* 'a', 'c', 'f', DEL, the first code point above 127 (a control character with
\* no name), e-acute, and a code point above U+FFFF (an emoji)
CodePoints == {97, 99, 102, 127, 128, 233, 128512}
SymbolTexts == SeqsUpTo(CodePoints, MaxSymbolTextLen)

HexDigits == <<"0", "1", "2", "3", "4", "5", "6", "7", "8", "9", "A", "B", "C", "D", "E", "F">>
\* format(n, 'X')
RECURSIVE Hex(_)
Hex(n) ==
    IF n < 16 THEN <<HexDigits[n + 1]>>
    ELSE Hex(n \div 16) \o <<HexDigits[(n % 16) + 1]>>
\* format(n, '04X'): zero-padded on the left to four characters
Hex04(n) ==
    LET h == Hex(n)
    IN  [i \in 1..(4 - Len(h)) |-> "0"] \o h
\* f"U+{ord(char):04X}"
UnicodeTag(cp) == <<"U", "+">> \o Hex04(cp)

\* unicodedata.name(char), "UNKNOWN" on ValueError
UnicodeDesc(cp) ==
    CASE cp = 233 -> "LATIN SMALL LETTER E WITH ACUTE"
      [] cp = 128512 -> "GRINNING FACE"
      [] OTHER -> "UNKNOWN"

SymbolSample(cp, idx) ==
    [type |-> "symbol", content |-> cp,
     meta |-> [unicode |-> UnicodeTag(cp), desc |-> UnicodeDesc(cp), position |-> idx]]

\* the scan that also takes code point 127
RECURSIVE SymbolsFrom_Above126(_, _)
SymbolsFrom_Above126(txt, idx) ==
    IF txt = <<>> THEN <<>>
    ELSE (IF Head(txt) > 126 THEN <<SymbolSample(Head(txt), idx)>> ELSE <<>>)
         \o SymbolsFrom_Above126(Tail(txt), idx + 1)

\* "for idx, char in enumerate(text): if ord(char) > 127: symbols.append(...)",
\* on the rest txt of the text that starts at offset idx
RECURSIVE SymbolsFrom(_, _)
SymbolsFrom(txt, idx) ==
    IF txt = <<>> THEN <<>>
    ELSE (IF Head(txt) > 127 THEN <<SymbolSample(Head(txt), idx)>> ELSE <<>>)
         \o SymbolsFrom(Tail(txt), idx + 1)

ExtractUnicodeSymbols(txt) == SymbolsFrom(txt, 0)

\* The characters of math markup, by code point: $ \ ( ) [ ] newline x
MathChar ==
    [dollar |-> 36, backslash |-> 92, lparen |-> 40, rparen |-> 41,
     lbracket |-> 91, rbracket |-> 93, newline |-> 10, x |-> 120]

\* math_patterns: each is an opening delimiter, ".*?" under re.DOTALL, a closing one
MathPatterns ==
    <<[open |-> <<MathChar.dollar>>, close |-> <<MathChar.dollar>>],
      [open |-> <<MathChar.backslash, MathChar.lparen>>,
       close |-> <<MathChar.backslash, MathChar.rparen>>],
      [open |-> <<MathChar.backslash, MathChar.lbracket>>,
       close |-> <<MathChar.backslash, MathChar.rbracket>>]>>

\* texts put together from delimiters, a lone backslash, a letter and a newline
MathPieces ==
    {<<MathChar.dollar>>, <<MathChar.x>>, <<MathChar.newline>>, <<MathChar.backslash>>,
     <<MathChar.backslash, MathChar.lparen>>, <<MathChar.backslash, MathChar.rparen>>,
     <<MathChar.backslash, MathChar.lbracket>>, <<MathChar.backslash, MathChar.rbracket>>}
MathTexts == {Join(ps, <<>>) : ps \in SeqsUpTo(MathPieces, MaxMathPieces)}

\* the word w stands in txt at the 0-based offset k
OccursAt(txt, w, k) ==
    k + Len(w) <= Len(txt) /\ SubSeq(txt, k + 1, k + Len(w)) = w
\* the offsets at or after k where the closing delimiter stands
ClosesFrom(txt, pat, k) == {c \in k..Len(txt) : OccursAt(txt, pat.close, c)}
\* the offsets at or after i where a match of the pattern can start
MatchStarts(txt, pat, i) ==
    {s \in i..Len(txt) :
        OccursAt(txt, pat.open, s) /\ ClosesFrom(txt, pat, s + Len(pat.open)) # {}}
Least(S) == CHOOSE k \in S : \A j \in S : k <= j
Greatest(S) == CHOOSE k \in S : \A j \in S : k >= j

\* the scan with ".*" in place of ".*?": a match runs to the last closing delimiter
RECURSIVE FindIter_Greedy(_, _, _)
FindIter_Greedy(txt, pat, i) ==
    IF MatchStarts(txt, pat, i) = {} THEN <<>>
    ELSE LET s == Least(MatchStarts(txt, pat, i))
             e == Greatest(ClosesFrom(txt, pat, s + Len(pat.open))) + Len(pat.close)
         IN  <<[start |-> s, end |-> e]>> \o FindIter_Greedy(txt, pat, e)

\* re.finditer(pat, text, re.DOTALL) from offset i: the leftmost start, the
\* nearest closing delimiter after the opening one, then on from the match's end
RECURSIVE FindIter(_, _, _)
FindIter(txt, pat, i) ==
    IF MatchStarts(txt, pat, i) = {} THEN <<>>
    ELSE LET s == Least(MatchStarts(txt, pat, i))
             e == Least(ClosesFrom(txt, pat, s + Len(pat.open))) + Len(pat.close)
         IN  <<[start |-> s, end |-> e]>> \o FindIter(txt, pat, e)

\* m.group(0), m.start(), m.end()
MathSample(txt, m) ==
    [type |-> "math", content |-> SubSeq(txt, m.start + 1, m.end),
     meta |-> [start |-> m.start, end |-> m.end]]
MathSamples(txt, pat) ==
    LET ms == FindIter(txt, pat, 0)
    IN  [k \in DOMAIN ms |-> MathSample(txt, ms[k])]

ExtractMathExpressions(txt) ==
    MathSamples(txt, MathPatterns[1]) \o MathSamples(txt, MathPatterns[2])
        \o MathSamples(txt, MathPatterns[3])

(***************************************************************************)
\* analyze_sentiment, the packing of sentences into chunks.  A sentence of
\* sent_tokenize is known by its number of words, which is at least one; a chunk
\* is the list of the indices of the sentences joined into it.
SentenceWords == {1, 255, 256, 511, 512}
SentenceLists == SeqsUpTo(SentenceWords, MaxSentences)

\* len(current_chunk.split())
RECURSIVE ChunkWords(_, _)
ChunkWords(ws, chunk) ==
    IF chunk = <<>> THEN 0 ELSE ws[chunk[1]] + ChunkWords(ws, Tail(chunk))

\* if current_chunk: chunks.append(current_chunk.strip())
AppendChunk(chunks, current) ==
    IF current # <<>> THEN Append(chunks, current) ELSE chunks

\* the loop without the append after it
RECURSIVE PackFrom_NoFinalAppend(_, _, _, _)
PackFrom_NoFinalAppend(ws, i, chunks, current) ==
    IF i > Len(ws) THEN chunks
    ELSE IF ChunkWords(ws, current) + ws[i] < sentiment_max_token_count
    THEN PackFrom_NoFinalAppend(ws, i + 1, chunks, Append(current, i))
    ELSE PackFrom_NoFinalAppend(ws, i + 1, AppendChunk(chunks, current), <<i>>)

\* for sentence in sentences: ...; if current_chunk: chunks.append(...)
RECURSIVE PackFrom(_, _, _, _)
PackFrom(ws, i, chunks, current) ==
    IF i > Len(ws) THEN AppendChunk(chunks, current)
    ELSE IF ChunkWords(ws, current) + ws[i] < sentiment_max_token_count
    THEN PackFrom(ws, i + 1, chunks, Append(current, i))
    ELSE PackFrom(ws, i + 1, AppendChunk(chunks, current), <<i>>)

SentimentChunks(ws) == PackFrom(ws, 1, <<>>, <<>>)

\* calculate_readability and _count_syllables.  A token is a sequence of
\* characters: ASCII letters, a digit, an apostrophe, and "e-acute" for the letter
\* U+00E9, for which str.isalpha() is true and which [^a-zA-Z] matches.
AsciiLowers == {"a", "e", "y", "l", "t", "h", "m", "s", "b", "w"}
AsciiUppers == {"A"}
SyllableChars == {"a", "e", "y", "l", "t", "A", "1", "'", "e-acute"}
SpecialWords ==
    {<<"t", "h", "e">>, <<"m", "e">>, <<"s", "h", "e">>, <<"h", "e">>,
     <<"b", "e">>, <<"w", "e">>}
SyllableWords == SeqsUpTo(SyllableChars, MaxWordLen) \cup SpecialWords
SyllableVowels == {"a", "e", "i", "o", "u", "y"}

\* c.isalpha()
IsAlpha(c) == c \in AsciiLowers \cup AsciiUppers \cup {"e-acute"}
\* str.lower()
LowerChar(c) == IF c = "A" THEN "a" ELSE c
LowerChars(w) == [i \in DOMAIN w |-> LowerChar(w[i])]
\* re.sub(r'[^a-zA-Z]', '', word)
RECURSIVE AsciiLettersOf(_)
AsciiLettersOf(w) ==
    IF w = <<>> THEN <<>>
    ELSE (IF w[1] \in AsciiLowers \cup AsciiUppers THEN <<w[1]>> ELSE <<>>)
             \o AsciiLettersOf(Tail(w))

\* for char in word: a vowel after a non-vowel starts a group
RECURSIVE VowelGroupsFrom(_, _, _)
VowelGroupsFrom(w, i, prev_is_vowel) ==
    IF i > Len(w) THEN 0
    ELSE LET is_vowel == w[i] \in SyllableVowels
         IN  (IF is_vowel /\ ~prev_is_vowel THEN 1 ELSE 0)
                 + VowelGroupsFrom(w, i + 1, is_vowel)

EndsWith(w, suffix) ==
    Len(w) >= Len(suffix) /\ SubSeq(w, Len(w) - Len(suffix) + 1, Len(w)) = suffix
Max(a, b) == IF a >= b THEN a ELSE b

\* the estimate without the adjustment for a final "le"
CountSyllables_NoLe(word) ==
    LET w == AsciiLettersOf(LowerChars(word))
        count == VowelGroupsFrom(w, 1, FALSE) - (IF EndsWith(w, <<"e">>) THEN 1 ELSE 0)
    IN  IF w = <<>> THEN 0
        ELSE IF w \in SpecialWords THEN 1
        ELSE Max(count, 1)

\* DocumentAnalyzer._count_syllables
CountSyllables(word) ==
    LET w == AsciiLettersOf(LowerChars(word))
        groups == VowelGroupsFrom(w, 1, FALSE)
        silent_e == IF EndsWith(w, <<"e">>) THEN 1 ELSE 0
        le == IF EndsWith(w, <<"l", "e">>) /\ Len(w) > 2
                   /\ w[Len(w) - 2] \notin SyllableVowels
              THEN 1 ELSE 0
    IN  IF w = <<>> THEN 0
        ELSE IF w \in SpecialWords THEN 1
        ELSE Max(groups - silent_e + le, 1)

\* the tokens of word_tokenize: the, tle, A, a1, 12, e-acute
ReadabilityTokens ==
    {<<"t", "h", "e">>, <<"t", "l", "e">>, <<"A">>, <<"a", "1">>, <<"1", "1">>,
     <<"e-acute">>}
TokenLists == SeqsUpTo(ReadabilityTokens, MaxTokens)

\* words = [word for word in words if any(c.isalpha() for c in word)]
RECURSIVE WordsOf(_)
WordsOf(tokens) ==
    IF tokens = <<>> THEN <<>>
    ELSE (IF \E i \in DOMAIN tokens[1] : IsAlpha(tokens[1][i])
          THEN <<tokens[1]>> ELSE <<>>) \o WordsOf(Tail(tokens))

\* syllable_count and complex_words after the loop over words
RECURSIVE SyllableTotal(_)
SyllableTotal(words) ==
    IF words = <<>> THEN 0
    ELSE CountSyllables(LowerChars(words[1])) + SyllableTotal(Tail(words))
RECURSIVE ComplexWords(_)
ComplexWords(words) ==
    IF words = <<>> THEN 0
    ELSE (IF CountSyllables(LowerChars(words[1])) >= 3 THEN 1 ELSE 0)
             + ComplexWords(Tail(words))

\* the counts calculate_readability computes its scores from
ReadabilityCounts(tokens) ==
    LET words == WordsOf(tokens)
    IN  [word_count |-> Len(words), syllable_count |-> SyllableTotal(words),
         complex_words |-> ComplexWords(words)]

(* export_mistral_jsonl.process_document_for_mistral, from the result of   *)
(* extract_with_images on.  Chunk texts are sequences of code points.      *)
(***************************************************************************)
\* "", "x", e-acute, e-acute followed by $x$
ExportChunks == {<<>>, <<120>>, <<233>>, <<233, 36, 120, 36>>}
\* the image samples of image_utils, known by their place in the list
ExportImage(k) == [type |-> "symbol_image", content |-> "b64", meta |-> [index |-> k]]
ExportImageLists == {<<>>, <<ExportImage(0)>>, <<ExportImage(0), ExportImage(1)>>}
\* the dict {}
EmptyDict == [k \in {} |-> 0]

\* what extract_with_images returns: a PDF result (pages; the text is the pages
\* put together), a DOCX result (paragraphs; the text also holds the tables), a
\* plain result (text only) and an error result, each with its images
ExportResults ==
    {[text |-> Join(ps, <<10, 10>>), pages |-> ps, images |-> im] :
        ps \in SeqsUpTo(ExportChunks, MaxExportChunks), im \in ExportImageLists}
    \cup [text : ExportChunks, paragraphs : SeqsUpTo(ExportChunks, MaxExportChunks),
          images : ExportImageLists]
    \cup [text : ExportChunks, images : {<<>>}]
    \cup [error : {"File not found"}, images : {<<>>}]

\* text_chunks: pages, else paragraphs, else the text, each with its meta
TextChunks(result) ==
    IF "pages" \in DOMAIN result /\ result.pages # <<>>
    THEN [i \in DOMAIN result.pages |-> [chunk |-> result.pages[i], meta |-> [page |-> i]]]
    ELSE IF "paragraphs" \in DOMAIN result /\ result.paragraphs # <<>>
    THEN [i \in DOMAIN result.paragraphs |->
             [chunk |-> result.paragraphs[i], meta |-> [paragraph |-> i]]]
    ELSE IF "text" \in DOMAIN result /\ result.text # <<>>
    THEN <<[chunk |-> result.text, meta |-> EmptyDict]>>
    ELSE <<>>

\* sample["meta"].update(meta): the keys of meta are set in the sample's meta
MetaUpdate(sample, meta) == [sample EXCEPT !.meta = meta @@ sample.meta]
UpdateEach(samples, meta) == [k \in DOMAIN samples |-> MetaUpdate(samples[k], meta)]

\* the loop body with the math expressions ahead of the symbols
ChunkSamples_MathFirst(chunk, meta) ==
    <<[type |-> "text", content |-> chunk, meta |-> meta]>>
        \o UpdateEach(ExtractMathExpressions(chunk), meta)
        \o UpdateEach(ExtractUnicodeSymbols(chunk), meta)

\* the loop body: the text sample, the chunk's symbols, the chunk's math expressions
ChunkSamples(chunk, meta) ==
    <<[type |-> "text", content |-> chunk, meta |-> meta]>>
        \o UpdateEach(ExtractUnicodeSymbols(chunk), meta)
        \o UpdateEach(ExtractMathExpressions(chunk), meta)

RECURSIVE AllChunkSamples(_)
AllChunkSamples(chunks) ==
    IF chunks = <<>> THEN <<>>
    ELSE ChunkSamples(chunks[1].chunk, chunks[1].meta) \o AllChunkSamples(Tail(chunks))

\* the samples, written one json.dumps(sample) per line in this order
ProcessDocumentForMistral(result) ==
    AllChunkSamples(TextChunks(result))
        \o (IF "images" \in DOMAIN result THEN result.images ELSE <<>>)

\* one call of a helper that reads no state of the instance, on an argument
\* drawn at the start
HelperCalls ==
    [fn : {"_extractive_summarize"}, arg : Docs]
    \cup [fn : {"aggregate_sentiment"}, arg : SeqsUpTo(ChunkOutcomes, MaxChunks)]
    \cup [fn : {"extract_unicode_symbols"}, arg : SymbolTexts]
    \cup [fn : {"extract_math_expressions"}, arg : MathTexts]
    \cup [fn : {"process_document_for_mistral"}, arg : ExportResults]
    \cup [fn : {"sentiment_chunks"}, arg : SentenceLists]
    \cup [fn : {"_count_syllables"}, arg : SyllableWords]
    \cup [fn : {"readability_counts"}, arg : TokenLists]

InitHelper ==
    /\ fnCall \in HelperCalls
    /\ fnOut = NoOutcome
    /\ InitNoExtract
    /\ InitAnalyzer
    /\ InitNoHttp

ExtractiveSummarizeCall ==
    /\ fnOut = NoOutcome
    /\ fnCall.fn = "_extractive_summarize"
    /\ fnOut' = ExtractiveSummarize(fnCall.arg, sentences_count)
    /\ UNCHANGED <<httpVars, fnCall, exVars, instVars, callVars>>

AggregateSentimentCall ==
    /\ fnOut = NoOutcome
    /\ fnCall.fn = "aggregate_sentiment"
    /\ fnOut' = Return(AggregateSentiment(fnCall.arg), <<>>)
    /\ UNCHANGED <<httpVars, fnCall, exVars, instVars, callVars>>

ExtractUnicodeSymbolsCall ==
    /\ fnOut = NoOutcome
    /\ fnCall.fn = "extract_unicode_symbols"
    /\ fnOut' = Return(ExtractUnicodeSymbols(fnCall.arg), <<>>)
    /\ UNCHANGED <<httpVars, fnCall, exVars, instVars, callVars>>

ExtractMathExpressionsCall ==
    /\ fnOut = NoOutcome
    /\ fnCall.fn = "extract_math_expressions"
    /\ fnOut' = Return(ExtractMathExpressions(fnCall.arg), <<>>)
    /\ UNCHANGED <<httpVars, fnCall, exVars, instVars, callVars>>

ProcessDocumentForMistralCall ==
    /\ fnOut = NoOutcome
    /\ fnCall.fn = "process_document_for_mistral"
    /\ fnOut' = Return(ProcessDocumentForMistral(fnCall.arg), <<>>)
    /\ UNCHANGED <<httpVars, fnCall, exVars, instVars, callVars>>

SentimentChunksCall ==
    /\ fnOut = NoOutcome
    /\ fnCall.fn = "sentiment_chunks"
    /\ fnOut' = Return(SentimentChunks(fnCall.arg), <<>>)
    /\ UNCHANGED <<httpVars, fnCall, exVars, instVars, callVars>>

CountSyllablesCall ==
    /\ fnOut = NoOutcome
    /\ fnCall.fn = "_count_syllables"
    /\ fnOut' = Return(CountSyllables(fnCall.arg), <<>>)
    /\ UNCHANGED <<httpVars, fnCall, exVars, instVars, callVars>>

ReadabilityCountsCall ==
    /\ fnOut = NoOutcome
    /\ fnCall.fn = "readability_counts"
    /\ fnOut' = Return(ReadabilityCounts(fnCall.arg), <<>>)
    /\ UNCHANGED <<httpVars, fnCall, exVars, instVars, callVars>>

NextHelper ==
    \/ ExtractiveSummarizeCall
    \/ AggregateSentimentCall
    \/ ExtractUnicodeSymbolsCall
    \/ ExtractMathExpressionsCall
    \/ ProcessDocumentForMistralCall
    \/ SentimentChunksCall
    \/ CountSyllablesCall
    \/ ReadabilityCountsCall

SpecHelper == InitHelper /\ [][NextHelper]_vars

SpecExtract == InitExtract /\ [][NextExtract]_vars

NextShared ==
    \E t \in Callers :
        \/ SummarizeStart(t)
        \/ TopicsStart(t)
        \/ SummaryStep(t)
        \/ SummarizerCheck(t)
        \/ SummarizerLoad(t)
        \/ SummarizerCall(t)
        \/ TopicsStep(t)
        \/ ClassifierCheck(t)
        \/ ClassifierLoad(t)
        \/ ClassifierCall(t)
        \/ Finish(t)

SpecShared == Init /\ [][NextShared]_vars

\* stored documents, no request yet, nothing else in progress
InitHttp ==
    /\ InitFolders
    /\ InitNoExtract
    /\ InitAnalyzer
    /\ InitNoHelper

\* one request alone on the folders
NextHttp ==
    \/ ProcessCheck(1)
    \/ ProcessRead(1)
    \/ ProcessExtract(1)
    \/ ProcessWriteMetadata(1)
    \/ ProcessWriteResults(1)
    \/ DeleteCheck(1)
    \/ DeleteRead(1)
    \/ DeleteFile(1)
    \/ DeleteMetadata(1)
    \/ DeleteResults(1)
    \/ BatchStart(1)
    \/ BatchCheck(1)
    \/ BatchRead(1)
    \/ BatchExtract(1)
    \/ BatchWriteMetadata(1)
    \/ BatchWriteResults(1)

SpecHttp == InitHttp /\ [][NextHttp]_vars

\* the requests of the threaded server, their steps interleaved
NextHttpShared ==
    \E r \in Requests :
        \/ ProcessCheck(r)
        \/ ProcessRead(r)
        \/ ProcessExtract(r)
        \/ ProcessWriteMetadata(r)
        \/ ProcessWriteResults(r)
        \/ DeleteCheck(r)
        \/ DeleteRead(r)
        \/ DeleteFile(r)
        \/ DeleteMetadata(r)
        \/ DeleteResults(r)
        \/ BatchStart(r)
        \/ BatchCheck(r)
        \/ BatchRead(r)
        \/ BatchExtract(r)
        \/ BatchWriteMetadata(r)
        \/ BatchWriteResults(r)

SpecHttpShared == InitHttp /\ [][NextHttpShared]_vars

(***************************************************************************)
(* Vocabulary of the properties.                                           *)
(***************************************************************************)
Range(s) == {s[i] : i \in DOMAIN s}

ExtractDone == exPc = "done" /\ exOp = "extract"
ExtractWithImagesDone == exPc = "done" /\ exOp = "extract_with_images"

\* the extraction strategy the path is dispatched to fails on the file
ExtractorFails(p, f) ==
    /\ f.exists
    /\ CASE SplitExt(p) = ".pdf" -> f.lib.pypdf2.raises /\ f.lib.pdfminer.raises
         [] SplitExt(p) = ".docx" -> f.lib.docx.raises
         [] SplitExt(p) = ".txt" ->
                \/ f.lib.utf8.kind = "os_error"
                \/ f.lib.utf8.kind = "decode_error" /\ f.lib.latin1.raises
         [] OTHER -> f.lib.textract.raises

HasError(v) == "error" \in DOMAIN v
HasText(v) == "text" \in DOMAIN v
PopulatedError(v) == HasError(v) /\ v.error # ""
PopulatedText(v) == HasText(v) /\ v.text # <<>>

\* the enabled sections as the specification states them: an option missing from
\* the map takes its default, sentiment disabled, the other five enabled
StatedEnabled(o, k) ==
    IF o.given /\ k \in DOMAIN o.map THEN o.map[k] ELSE k # "sentiment"

AnalyzeDone(t) == pc[t] = "done" /\ top[t] = "analyze"

\* C1: extract returns a result and never raises, whatever the dispatched extractor
\* does; when the extractor fails the result carries a non-empty error description.
C1_ExtractNeverRaises ==
    ExtractDone =>
        /\ exOut.kind = "return"
        /\ ExtractorFails(path, file) => PopulatedError(exOut.value)

\* C1 witness: a .docx whose parser raised inside the handler, answered by an error
C1_Witness ==
    /\ ExtractDone
    /\ SplitExt(path) = ".docx"
    /\ ExtractorFails(path, file)
    /\ exOut.kind = "return"
    /\ exOut.value.error = "Extraction failed: bad file"

\* C2: for a .pdf or .docx path whose image stage raises, extract_with_images does
\* not raise and returns the result of extract(path) with images = [].
C2_ImageFailureDegrades ==
    (/\ ExtractWithImagesDone
     /\ SplitExt(path) \in {".pdf", ".docx"}
     /\ file.lib.images.raises)
    => /\ exOut.kind = "return"
       /\ exOut.value = ("images" :> <<>>) @@ Extract(path, file).value

\* C3: no exception escapes analyze, whichever enabled section raises.
C3_AnalyzeNeverRaises ==
    \A t \in Callers : AnalyzeDone(t) => anOut[t].kind = "return"

\* C4: a failure of the summary model, the topic classifier or the sentiment
\* classifier never aborts the call: the failed section holds its fallback
\* (extractive summary, empty list, NEUTRAL with score 0.5) and every enabled
\* section is present in the result.
C4_ModelFailureDegrades ==
    \A t \in Callers :
        (top[t] = "analyze" /\ failed[t] # {}) =>
            /\ anOut[t].kind # "raise"
            /\ pc[t] = "done" =>
                /\ anOut[t].kind = "return"
                /\ \A k \in OptionKeys :
                       StatedEnabled(options[t], k) => k \in DOMAIN anOut[t].value
                /\ "summary" \in failed[t] =>
                       /\ anOut[t].value.summary.kind \in {"extractive", "text"}
                       /\ anOut[t].value.summary.of \in {text[t], Truncate(text[t])}
                /\ "topics" \in failed[t] => anOut[t].value.topics = <<>>
                /\ "sentiment" \in failed[t] =>
                       /\ anOut[t].value.sentiment.label = "NEUTRAL"
                       /\ anOut[t].value.sentiment.score = Half

\* C4 witness: one call in which all three models failed and all six sections
\* are in the result
C4_Witness ==
    \E t \in Callers :
        /\ AnalyzeDone(t)
        /\ failed[t] = {"summary", "topics", "sentiment"}
        /\ anOut[t].kind = "return"
        /\ DOMAIN anOut[t].value = BaseKeys \cup OptionKeys

\* C5 as stated: every extract result has a populated text or a populated error,
\* never neither and never both.
C5_PopulatedTextXorError ==
    ExtractDone =>
        /\ exOut.kind = "return"
        /\ PopulatedText(exOut.value) # PopulatedError(exOut.value)

\* C5 amended: every extract result has exactly one of the keys text and error;
\* an error is never empty, a text may be empty.
C5_TextXorErrorKey ==
    ExtractDone =>
        /\ exOut.kind = "return"
        /\ HasText(exOut.value) # HasError(exOut.value)
        /\ HasError(exOut.value) => exOut.value.error # ""

\* C5 witness: a file with no extractable text gives an empty text and no error
C5_Witness ==
    /\ ExtractDone
    /\ file.exists
    /\ exOut.kind = "return"
    /\ HasText(exOut.value)
    /\ exOut.value.text = <<>>
    /\ ~HasError(exOut.value)

\* C6: for a non-blank text the result of analyze has an optional key iff its
\* option is enabled (a missing option taking its default), next to the three
\* keys text_length, word_count, sentence_count.
C6_KeysIffEnabled ==
    \A t \in Callers :
        (AnalyzeDone(t) /\ ~IsBlank(text[t]) /\ anOut[t].kind = "return") =>
            DOMAIN anOut[t].value =
                BaseKeys \cup {k \in OptionKeys : StatedEnabled(options[t], k)}

\* C6 witness: all six options false, the result has exactly the three base keys
C6_Witness ==
    \E t \in Callers :
        /\ AnalyzeDone(t)
        /\ ~IsBlank(text[t])
        /\ options[t] = [given |-> TRUE, map |-> [k \in OptionKeys |-> FALSE]]
        /\ anOut[t].kind = "return"
        /\ DOMAIN anOut[t].value = BaseKeys

\* C7: with one instance shared by concurrent callers each model handle is loaded
\* exactly once and all callers run inference on that same handle.
C7_OneLoadShared ==
    /\ summarizerLoads <= 1
    /\ classifierLoads <= 1
    /\ \A t, u \in Callers : \A h \in used[t], g \in used[u] :
           (h[1] \in {"summarizer", "classifier"} /\ h[1] = g[1]) => h[2] = g[2]

\* C8: over a sequence of calls on one instance each of the three heavy resources
\* is loaded at most once, and not at construction.
C8_LoadedAtMostOnce ==
    /\ summarizerLoads <= 1
    /\ classifierLoads <= 1
    /\ sentimentLoads <= 1

PdfExtractDone == ExtractDone /\ file.exists /\ SplitExt(path) = ".pdf"
PrimaryRaised == file.lib.pypdf2.raises
SecondRan == "_extract_from_pdf_with_pdfminer" \in Range(exOut.calls)
SecondSucceeded == SecondRan /\ ~file.lib.pdfminer.raises

\* C9 as stated: for a .pdf path the whole-document strategy runs iff the per-page
\* strategy raised; when it runs and succeeds the metadata is empty and pages are
\* the non-blank form-feed-separated segments of the text; when both raise,
\* extract returns an error result.
C9_FallbackPagesAreSegments ==
    PdfExtractDone =>
        /\ SecondRan <=> PrimaryRaised
        /\ SecondSucceeded =>
            /\ exOut.value.metadata = <<>>
            /\ exOut.value.pages = SelectSeq(Split(exOut.value.text, FF), NonBlank)
        /\ (PrimaryRaised /\ file.lib.pdfminer.raises) =>
            (exOut.kind = "return" /\ PopulatedError(exOut.value))

\* C9 amended: as stated, but pages are the non-blank form-feed-separated segments
\* of the text each stripped of its leading and trailing whitespace.
C9_FallbackPagesAreStrippedSegments ==
    PdfExtractDone =>
        /\ SecondRan <=> PrimaryRaised
        /\ SecondSucceeded =>
            /\ exOut.value.metadata = <<>>
            /\ exOut.value.pages =
                   MapStrip(SelectSeq(Split(exOut.value.text, FF), NonBlank))
        /\ (PrimaryRaised /\ file.lib.pdfminer.raises) =>
            (exOut.kind = "return" /\ PopulatedError(exOut.value))

\* C9 witness: the per-page strategy raised, the whole-document strategy gave two
\* pages, one of them shorter than its segment
C9_Witness ==
    /\ PdfExtractDone
    /\ PrimaryRaised
    /\ SecondSucceeded
    /\ Len(exOut.value.pages) = 2
    /\ exOut.value.pages # SelectSeq(Split(exOut.value.text, FF), NonBlank)

PdfResult == PdfExtractDone /\ exOut.kind = "return" /\ HasText(exOut.value)

\* C10 as stated: for a PDF result of either strategy, text is the pages joined
\* with a blank line between consecutive pages.
C10_TextIsPagesJoined ==
    PdfResult => exOut.value.text = Join(exOut.value.pages, <<NL, NL>>)

\* C10 amended: a result of the per-page strategy has text equal to the pages
\* joined with a blank line and then stripped of leading and trailing whitespace;
\* a result of the whole-document strategy has text equal to the stripped
\* document text, in which the pages are separated by form feeds, not blank lines.
C10_TextIsStrippedJoinOrWholeText ==
    PdfResult =>
        IF SecondRan
        THEN /\ exOut.value.text = Strip(file.lib.pdfminer.text)
             /\ exOut.value.pages =
                    MapStrip(SelectSeq(Split(file.lib.pdfminer.text, FF), NonBlank))
        ELSE exOut.value.text = Strip(Join(exOut.value.pages, <<NL, NL>>))

\* C10 witness: a per-page result with two pages whose text is not the plain join
C10_Witness ==
    /\ PdfResult
    /\ ~SecondRan
    /\ Len(exOut.value.pages) = 2
    /\ exOut.value.text # Join(exOut.value.pages, <<NL, NL>>)

\* an existing .txt file (any letter case) whose UTF-8 read ends as u and whose
\* Latin-1 read, if reached, ends as l
TxtExtractDone == ExtractDone /\ file.exists /\ path.ext \in {".txt", ".TXT"}
TriedLatin1 == "open latin-1" \in Range(exOut.calls)

\* C11: on a .txt file that fails UTF-8 decoding extract does not raise; when the
\* Latin-1 read succeeds the result carries the Latin-1 decoded text (text is that
\* text stripped, lines are its lines) and metadata.encoding is "latin-1"; when the
\* Latin-1 read fails too the result is an error result; and the Latin-1 read is
\* attempted exactly when the UTF-8 read failed with a decode error, after it.
C11_Latin1Fallback ==
    TxtExtractDone =>
        LET u == file.lib.utf8
            l == file.lib.latin1
            v == exOut.value
        IN  /\ TriedLatin1 <=> u.kind = "decode_error"
            /\ TriedLatin1 =>
                  exOut.calls = <<"_extract_from_txt", "open utf-8", "open latin-1">>
            /\ u.kind = "decode_error" =>
                  /\ exOut.kind = "return"
                  /\ IF l.raises
                     THEN HasError(v) /\ ~HasText(v)
                     ELSE /\ ~HasError(v)
                          /\ v.text = Strip(l.text)
                          /\ Join(v.lines, <<NL>>) = l.text
                          /\ "encoding" \in DOMAIN v.metadata
                          /\ v.metadata.encoding = "latin-1"

C11_Witness ==
    /\ TxtExtractDone
    /\ file.lib.utf8.kind = "decode_error"
    /\ ~file.lib.latin1.raises
    /\ file.lib.latin1.text = <<"a", NL, "b">>
    /\ exOut.kind = "return"
    /\ exOut.value.lines = <<<<"a">>, <<"b">>>>
    /\ exOut.value.metadata.encoding = "latin-1"

\* C12: extract on a path with no file behind it returns a result whose error text
\* ends with the path as it was given, with no text key, and no format handler and
\* no fallback extractor has run, whatever the extension of the path.
C12_NotFoundNamesPath ==
    (ExtractDone /\ ~file.exists) =>
        /\ exOut.kind = "return"
        /\ HasError(exOut.value)
        /\ ~HasText(exOut.value)
        /\ exOut.value.error = "File not found: " \o path.stem \o path.ext
        /\ exOut.calls = <<>>

C12_Witness ==
    /\ ExtractDone
    /\ ~file.exists
    /\ path.ext = ".PDF"
    /\ exOut = Return([error |-> "File not found: report.PDF"], <<>>)

\* the functions extract dispatches to, and the one the specification states for
\* an extension
TopHandlers ==
    {"_extract_from_pdf", "_extract_from_docx", "_extract_from_doc",
     "_extract_from_txt", "_extract_with_textract"}
StatedHandler(e) ==
    CASE e \in {".pdf", ".PDF"} -> "_extract_from_pdf"
      [] e \in {".docx", ".Docx"} -> "_extract_from_docx"
      [] e \in {".doc", ".DOC"} -> "_extract_from_doc"
      [] e \in {".txt", ".TXT"} -> "_extract_from_txt"
      [] OTHER -> "_extract_with_textract"
SelectedHandlers == {i \in DOMAIN exOut.calls : exOut.calls[i] \in TopHandlers}

\* C13: on a file that exists extract runs exactly one of its handlers: the one of
\* the extension read without regard to letter case (.pdf, .docx, .doc, .txt), and
\* the generic fallback for every other extension and for a path with no extension.
C13_HandlerByExtension ==
    (ExtractDone /\ file.exists) =>
        /\ Cardinality(SelectedHandlers) = 1
        /\ exOut.calls[1] = StatedHandler(path.ext)

C13_Witness ==
    /\ ExtractDone
    /\ file.exists
    /\ path.ext = ".Docx"
    /\ exOut.calls = <<"_extract_from_docx">>

\* C14: analyze on an empty or whitespace-only text ends at once with a returned
\* result that is only a non-empty error description: no section was computed,
\* no model was loaded or run, none failed, and nothing was raised, whatever the
\* options argument.
C14_BlankTextErrorResult ==
    \A t \in Callers :
        (AnalyzeDone(t) /\ text[t].words = 0) =>
            /\ anOut[t].kind = "return"
            /\ DOMAIN anOut[t].value = {"error"}
            /\ anOut[t].value.error # ""
            /\ results[t] = <<>>
            /\ used[t] = {}
            /\ failed[t] = {}

\* C14 witness: a whitespace-only text with all six sections asked for
C14_Witness ==
    \E t \in Callers :
        /\ AnalyzeDone(t)
        /\ text[t].chars = 2
        /\ text[t].words = 0
        /\ options[t] = [given |-> TRUE, map |-> [k \in OptionKeys |-> TRUE]]
        /\ anOut[t] = Return([error |-> "Empty text provided for analysis"], <<>>)

SummarizeDone(t) == pc[t] = "done" /\ top[t] = "summarize"

\* C15: summarize on a text of fewer than min_length whitespace-separated words
\* returns that very text, and the call neither loads nor runs the summarization
\* model.
C15_ShortTextReturnedVerbatim ==
    \A t \in Callers :
        (SummarizeDone(t) /\ text[t].words < min_length) =>
            /\ anOut[t] = Return([kind |-> "text", of |-> text[t]], <<>>)
            /\ used[t] = {}
            /\ failed[t] = {}

\* C15 witness: a text of min_length - 1 words, five sentences, on a fresh instance
C15_Witness ==
    \E t \in Callers :
        /\ SummarizeDone(t)
        /\ text[t].words = min_length - 1
        /\ text[t].sentences > sentences_count
        /\ anOut[t].kind = "return"
        /\ anOut[t].value.of = text[t]
        /\ summarizerLoads = 0

ExtractiveDone == fnCall.fn = "_extractive_summarize" /\ fnOut # NoOutcome

\* the score the specification gives a sentence: the summed frequency of its
\* non-stopword alphanumeric words, 0 when it has none
StatedScore(doc, i) == SumFrequencies(doc, SentenceTokens(doc[i]))

\* C16: on a document of more than sentences_count sentences the extractive
\* fallback returns sentences_count distinct sentences, none scoring below a
\* sentence left out, joined by single spaces in document order.
C16_TopSentencesInOrder ==
    (ExtractiveDone /\ Len(fnCall.arg) > sentences_count) =>
        /\ fnOut.kind = "return"
        /\ \E S \in SUBSET DOMAIN fnCall.arg :
              /\ Cardinality(S) = sentences_count
              /\ \A i \in S, j \in DOMAIN fnCall.arg \ S :
                     StatedScore(fnCall.arg, j) <= StatedScore(fnCall.arg, i)
              /\ fnOut.value = Join(Pick(fnCall.arg, S), <<SP>>)

\* the summarization model failed in this summarize call, on a document of at most
\* sentences_count sentences
FewSentencesFallback(t) ==
    /\ SummarizeDone(t)
    /\ "summary" \in failed[t]
    /\ text[t].sentences <= sentences_count
\* the failure came from the model call, after the load and the truncation
ModelCallFailed(t) == \E h \in used[t] : h[1] = "summarizer"

\* C17 as stated: when the summarization model fails on a document of at most
\* sentences_count sentences, summarize returns the text it was given, whatever
\* its word count.
C17_FallbackReturnsGivenText ==
    \A t \in Callers :
        FewSentencesFallback(t) =>
            anOut[t] = Return([kind |-> "text", of |-> text[t]], <<>>)

\* C17 amended: when the summarization model fails on a document of at most
\* sentences_count sentences, summarize returns the text it was given if that
\* text has at most max_token_count words or the model failed while loading;
\* if the text is longer and the model call itself failed, it returns the first
\* max_token_count words of the text joined by single spaces.
C17_FallbackReturnsTextOrItsHead ==
    \A t \in Callers :
        FewSentencesFallback(t) =>
            /\ anOut[t].kind = "return"
            /\ anOut[t].value.kind = "text"
            /\ anOut[t].value.of =
                  IF text[t].words > max_token_count /\ ModelCallFailed(t)
                  THEN text[t].head ELSE text[t]

\* C17 witness: a two-sentence text above max_token_count words, the model call
\* failed, and what came back is the cut text, not the text given
C17_Witness ==
    \E t \in Callers :
        /\ FewSentencesFallback(t)
        /\ text[t].words > max_token_count
        /\ ModelCallFailed(t)
        /\ anOut[t].value.of = text[t].head
        /\ anOut[t].value.of # text[t]
        /\ anOut[t].value.of.words = max_token_count

AggregateDone == fnCall.fn = "aggregate_sentiment" /\ fnOut # NoOutcome
Votes(rs, l) == Cardinality({i \in DOMAIN rs : rs[i].label = l})

\* C18: for n >= 1 classified chunks, each POSITIVE or NEGATIVE, the label is the
\* class with more chunks and on equal counts the class with the higher summed
\* confidence; the score is the summed confidence of the returned class divided
\* by n, and positive_ratio and negative_ratio are the vote counts divided by n.
C18_MajorityLabelAndScore ==
    (AggregateDone /\ Len(fnCall.arg) >= 1) =>
        LET rs == fnCall.arg
            n == Len(rs)
            v == fnOut.value
            pos == Votes(rs, "POSITIVE")
            neg == Votes(rs, "NEGATIVE")
            ps == SumScores(rs, "POSITIVE")
            ns == SumScores(rs, "NEGATIVE")
        IN  /\ fnOut.kind = "return"
            /\ DOMAIN v = {"label", "score", "positive_ratio", "negative_ratio"}
            /\ v.label \in {"POSITIVE", "NEGATIVE"}
            /\ pos > neg => v.label = "POSITIVE"
            /\ neg > pos => v.label = "NEGATIVE"
            /\ (pos = neg /\ ps > ns) => v.label = "POSITIVE"
            /\ (pos = neg /\ ns > ps) => v.label = "NEGATIVE"
            /\ FracEq(v.score, Frac(IF v.label = "POSITIVE" THEN ps ELSE ns, n))
            /\ FracEq(v.positive_ratio, Frac(pos, n))
            /\ FracEq(v.negative_ratio, Frac(neg, n))

\* C18 witness: one chunk each way, the negative one more confident: NEGATIVE wins
\* with its summed confidence 0.90 divided by the two chunks
C18_Witness ==
    /\ AggregateDone
    /\ fnCall.arg = <<[label |-> "POSITIVE", score |-> 60],
                      [label |-> "NEGATIVE", score |-> 90]>>
    /\ fnOut.value.label = "NEGATIVE"
    /\ fnOut.value.score = Frac(90, 2)
    /\ fnOut.value.positive_ratio = Frac(1, 2)

\* a direct analyze_sentiment call on a text that gives no chunk
ZeroChunksDone(t) ==
    pc[t] = "done" /\ top[t] = "analyze_sentiment" /\ text[t].chunks = 0
ClassifierInvoked(t) == \E h \in used[t] : h[1] = "sentiment"

\* C19 as stated: analyze_sentiment on an input that yields no chunk returns
\* exactly label NEUTRAL and score 0.5, the classifier is invoked on no chunk and
\* nothing is raised.
C19_ZeroChunksExactlyNeutral ==
    \A t \in Callers :
        ZeroChunksDone(t) =>
            /\ anOut[t] = Return([label |-> "NEUTRAL", score |-> Half], <<>>)
            /\ ~ClassifierInvoked(t)

\* C19 amended: analyze_sentiment on an input that yields no chunk returns label
\* NEUTRAL and score 0.5 without invoking the classifier on any chunk and without
\* raising; the result has exactly these two keys when the sentiment pipeline was
\* constructed, and an error key besides them when constructing it raised.
C19_ZeroChunksNeutral ==
    \A t \in Callers :
        ZeroChunksDone(t) =>
            /\ anOut[t].kind = "return"
            /\ anOut[t].value.label = "NEUTRAL"
            /\ anOut[t].value.score = Half
            /\ ~ClassifierInvoked(t)
            /\ DOMAIN anOut[t].value =
                  IF "sentiment" \in failed[t]
                  THEN {"label", "score", "error"} ELSE {"label", "score"}

\* C19 witness: the empty string, with the pipeline constructed and the result of
\* two keys
C19_Witness ==
    \E t \in Callers :
        /\ ZeroChunksDone(t)
        /\ text[t].chars = 0
        /\ <<"sentiment load", sentimentLoads>> \in used[t]
        /\ sentimentLoads > 0
        /\ anOut[t] = Return([label |-> "NEUTRAL", score |-> Half], <<>>)

ReadabilityKeys ==
    {"flesch_reading_ease", "flesch_kincaid_grade", "complex_word_ratio",
     "avg_words_per_sentence", "avg_syllables_per_word"}

\* C20: calculate_readability on a text with no word or no sentence returns all
\* five readability metrics, each equal to 0, and raises nothing.
C20_ZeroCountsAllFiveZero ==
    \A t \in Callers :
        (/\ pc[t] = "done"
         /\ top[t] = "calculate_readability"
         /\ (text[t].alpha = 0 \/ text[t].sentences = 0)) =>
            /\ anOut[t].kind = "return"
            /\ DOMAIN anOut[t].value = ReadabilityKeys
            /\ \A k \in ReadabilityKeys : anOut[t].value[k] = 0

UnicodeSymbolsDone == fnCall.fn = "extract_unicode_symbols" /\ fnOut # NoOutcome

\* the number a sequence of uppercase hexadecimal digits writes
RECURSIVE HexValue(_)
HexValue(ds) ==
    IF ds = <<>> THEN 0
    ELSE 16 * HexValue(SubSeq(ds, 1, Len(ds) - 1))
         + (CHOOSE d \in 0..15 : HexDigits[d + 1] = ds[Len(ds)])

\* C21: extract_unicode_symbols returns one sample for every character above code
\* point 127 and for no other, in text order, repeated characters included; the
\* sample holds the character, its 0-based offset, and "U+" followed by the code
\* point written in uppercase hexadecimal digits, four of them or as many as the
\* code point needs.
C21_OneSamplePerNonAscii ==
    UnicodeSymbolsDone =>
        LET txt == fnCall.arg
            out == fnOut.value
            \* the 0-based offsets of the characters above 127
            offsets == {i \in 0..(Len(txt) - 1) : txt[i + 1] > 127}
        IN  /\ fnOut.kind = "return"
            /\ Len(out) = Cardinality(offsets)
            /\ \A k \in DOMAIN out :
                  LET tag == out[k].meta.unicode
                      digits == SubSeq(tag, 3, Len(tag))
                  IN  /\ out[k].meta.position \in offsets
                      /\ out[k].content = txt[out[k].meta.position + 1]
                      /\ k > 1 => out[k - 1].meta.position < out[k].meta.position
                      /\ SubSeq(tag, 1, 2) = <<"U", "+">>
                      /\ Len(digits) >= 4
                      /\ \A j \in DOMAIN digits : digits[j] \in Range(HexDigits)
                      /\ HexValue(digits) = out[k].content
                      /\ Len(digits) > 4 => digits[1] # "0"

\* C21 witness: "cafe" with e-acute gives the one sample e-acute, U+00E9, position 3
C21_Witness ==
    /\ UnicodeSymbolsDone
    /\ fnCall.arg = <<99, 97, 102, 233>>
    /\ Len(fnOut.value) = 1
    /\ fnOut.value[1].content = 233
    /\ fnOut.value[1].meta.unicode = <<"U", "+", "0", "0", "E", "9">>
    /\ fnOut.value[1].meta.position = 3

MathDone == fnCall.fn = "extract_math_expressions" /\ fnOut # NoOutcome

\* [s, e) is a shortest stretch of txt for the pattern: the opening delimiter at
\* s, the closing one ending at e, and no closing delimiter standing earlier
\* after the opening one
ShortestMatch(txt, pat, s, e) ==
    /\ OccursAt(txt, pat.open, s)
    /\ e - Len(pat.close) >= s + Len(pat.open)
    /\ OccursAt(txt, pat.close, e - Len(pat.close))
    /\ \A c \in (s + Len(pat.open))..(e - Len(pat.close) - 1) :
           ~OccursAt(txt, pat.close, c)
\* an opening delimiter with a closing one after it, somewhere in [from, to)
OpenPairIn(txt, pat, from, to) ==
    \E s \in from..(to - 1) :
        /\ OccursAt(txt, pat.open, s)
        /\ \E c \in (s + Len(pat.open))..Len(txt) : OccursAt(txt, pat.close, c)

\* C22: the samples are those of $...$, then those of \(...\), then those of
\* \[...\]; the samples of one pattern are its shortest matches taken from left to
\* right over the whole text, newlines inside included, none left out, whatever
\* the other patterns matched; every sample has content = text[start:end].
C22_MatchesPerPattern ==
    MathDone =>
        LET txt == fnCall.arg
            out == fnOut.value
        IN  /\ fnOut.kind = "return"
            /\ \A k \in DOMAIN out :
                  /\ DOMAIN out[k].meta = {"start", "end"}
                  /\ out[k].content = SubSeq(txt, out[k].meta.start + 1, out[k].meta.end)
            /\ \E n1, n2 \in 0..Len(out) :
                  /\ n1 <= n2
                  /\ \A p \in 1..3 :
                        LET lo == CASE p = 1 -> 1 [] p = 2 -> n1 + 1 [] p = 3 -> n2 + 1
                            hi == CASE p = 1 -> n1 [] p = 2 -> n2 [] p = 3 -> Len(out)
                            pat == MathPatterns[p]
                        IN  /\ \A k \in lo..hi :
                                  /\ ShortestMatch(txt, pat, out[k].meta.start, out[k].meta.end)
                                  /\ ~OpenPairIn(txt, pat,
                                         IF k = lo THEN 0 ELSE out[k - 1].meta.end,
                                         out[k].meta.start)
                            /\ ~OpenPairIn(txt, pat,
                                   IF hi < lo THEN 0 ELSE out[hi].meta.end, Len(txt))

\* C22 witness: the text \($\)$ gives $\)$ at 2..6 and then \($\) at 0..5, two
\* overlapping matches of different patterns
C22_Witness ==
    /\ MathDone
    /\ fnCall.arg = <<92, 40, 36, 92, 41, 36>>
    /\ Len(fnOut.value) = 2
    /\ fnOut.value[1] = [type |-> "math", content |-> <<36, 92, 41, 36>>,
                         meta |-> [start |-> 2, end |-> 6]]
    /\ fnOut.value[2] = [type |-> "math", content |-> <<92, 40, 36, 92, 41>>,
                         meta |-> [start |-> 0, end |-> 5]]

ExportDone == fnCall.fn = "process_document_for_mistral" /\ fnOut # NoOutcome

\* the chunks the records are made from: pages, else paragraphs, else the text
ExportChunkKind(result) ==
    IF "pages" \in DOMAIN result /\ result.pages # <<>> THEN "page"
    ELSE IF "paragraphs" \in DOMAIN result /\ result.paragraphs # <<>> THEN "paragraph"
    ELSE IF "text" \in DOMAIN result /\ result.text # <<>> THEN "text"
    ELSE "none"
ExportChunkTexts(result) ==
    CASE ExportChunkKind(result) = "page" -> result.pages
      [] ExportChunkKind(result) = "paragraph" -> result.paragraphs
      [] ExportChunkKind(result) = "text" -> <<result.text>>
      [] OTHER -> <<>>

\* the records of the k-th chunk start after those of the chunks before it
RECURSIVE ChunkOffset(_, _)
ChunkOffset(chunks, k) ==
    IF k = 1 THEN 0
    ELSE ChunkOffset(chunks, k - 1) + 1 + Len(ExtractUnicodeSymbols(chunks[k - 1]))
             + Len(ExtractMathExpressions(chunks[k - 1]))

\* the order of the records: per chunk its text record, its symbols, its math
\* expressions, with offsets relative to the chunk; after the chunks, the images
ExportOrder(result, out) ==
    LET chunks == ExportChunkTexts(result)
        n == Len(chunks)
        imgs == IF "images" \in DOMAIN result THEN result.images ELSE <<>>
    IN  /\ Len(out) = ChunkOffset(chunks, n + 1) + Len(imgs)
        /\ \A k \in 1..n :
              LET at == ChunkOffset(chunks, k)
                  syms == ExtractUnicodeSymbols(chunks[k])
                  maths == ExtractMathExpressions(chunks[k])
              IN  /\ out[at + 1].type = "text" /\ out[at + 1].content = chunks[k]
                  /\ \A j \in DOMAIN syms :
                        /\ out[at + 1 + j].type = "symbol"
                        /\ out[at + 1 + j].content = syms[j].content
                        /\ \A key \in {"unicode", "desc", "position"} :
                              /\ key \in DOMAIN out[at + 1 + j].meta
                              /\ out[at + 1 + j].meta[key] = syms[j].meta[key]
                  /\ \A j \in DOMAIN maths :
                        /\ out[at + 1 + Len(syms) + j].type = "math"
                        /\ out[at + 1 + Len(syms) + j].content = maths[j].content
                        /\ \A key \in {"start", "end"} :
                              /\ key \in DOMAIN out[at + 1 + Len(syms) + j].meta
                              /\ out[at + 1 + Len(syms) + j].meta[key] = maths[j].meta[key]
        /\ \A j \in DOMAIN imgs :
              /\ out[ChunkOffset(chunks, n + 1) + j].type = "symbol_image"
              /\ out[ChunkOffset(chunks, n + 1) + j] = imgs[j]

\* C23 as stated: the records come in that order, and the meta of every symbol
\* record is exactly {unicode, desc, position}, that of every math record exactly
\* {start, end}.
C23_MetaIsExactlyTheExtractorKeys ==
    ExportDone =>
        /\ ExportOrder(fnCall.arg, fnOut.value)
        /\ \A k \in DOMAIN fnOut.value :
              /\ fnOut.value[k].type = "symbol" =>
                     DOMAIN fnOut.value[k].meta = {"unicode", "desc", "position"}
              /\ fnOut.value[k].type = "math" =>
                     DOMAIN fnOut.value[k].meta = {"start", "end"}

\* the keys the chunk's own meta adds to every record made from it
ChunkMetaKeys(result) ==
    CASE ExportChunkKind(result) = "page" -> {"page"}
      [] ExportChunkKind(result) = "paragraph" -> {"paragraph"}
      [] OTHER -> {}

\* C23 (amended): the records come in that order; the meta of a symbol record is
\* {unicode, desc, position} and that of a math record {start, end}, each
\* together with the page or paragraph number of its chunk when the chunks are
\* pages or paragraphs, which is the number the chunk's text record carries.
C23_MetaCarriesTheChunkNumber ==
    ExportDone =>
        LET result == fnCall.arg
            out == fnOut.value
            chunks == ExportChunkTexts(result)
        IN  /\ ExportOrder(result, out)
            /\ \A k \in DOMAIN chunks :
                  LET at == ChunkOffset(chunks, k)
                  IN  /\ DOMAIN out[at + 1].meta = ChunkMetaKeys(result)
                      /\ \A key \in ChunkMetaKeys(result) : out[at + 1].meta[key] = k
                      /\ \A j \in (at + 2)..ChunkOffset(chunks, k + 1) :
                            /\ DOMAIN out[j].meta =
                                   ChunkMetaKeys(result) \cup
                                       (IF out[j].type = "symbol"
                                        THEN {"unicode", "desc", "position"}
                                        ELSE {"start", "end"})
                            /\ \A key \in ChunkMetaKeys(result) : out[j].meta[key] = k

\* C23 witness: two pages, the second with a symbol and a math expression, and an
\* image: text, text, symbol, math, image, the symbol and the math of page 2
C23_Witness ==
    /\ ExportDone
    /\ "pages" \in DOMAIN fnCall.arg
    /\ fnCall.arg.pages = <<<<120>>, <<233, 36, 120, 36>>>>
    /\ Len(fnCall.arg.images) = 1
    /\ Len(fnOut.value) = 5
    /\ fnOut.value[3].type = "symbol" /\ fnOut.value[3].meta.page = 2
    /\ fnOut.value[3].meta.position = 0
    /\ fnOut.value[4].type = "math" /\ fnOut.value[4].meta.page = 2
    /\ fnOut.value[4].meta.start = 1 /\ fnOut.value[4].meta.end = 4
    /\ fnOut.value[5].type = "symbol_image"

ChunksDone == fnCall.fn = "sentiment_chunks" /\ fnOut # NoOutcome

\* the chunk is a run of consecutive sentences
ConsecutiveSentences(chunk) ==
    \A k \in 1..(Len(chunk) - 1) : chunk[k + 1] = chunk[k] + 1

\* C24: every chunk of analyze_sentiment has fewer than 512 words and is made of
\* whole consecutive sentences.
C24_ChunksBelowLimit ==
    ChunksDone =>
        \A c \in DOMAIN fnOut.value :
            /\ ConsecutiveSentences(fnOut.value[c])
            /\ ChunkWords(fnCall.arg, fnOut.value[c]) < sentiment_max_token_count

\* C27: the chunks partition the sentences: put end to end they are the
\* sentences 1..n in order, each once, and no chunk is empty.
C27_ChunksPartitionSentences ==
    ChunksDone =>
        /\ Join(fnOut.value, <<>>) = [i \in 1..Len(fnCall.arg) |-> i]
        /\ \A c \in DOMAIN fnOut.value : fnOut.value[c] # <<>>

\* C27 witness: sentences of 255, 256, 512 and 1 words are packed as [1, 2], [3], [4]
C27_Witness ==
    /\ ChunksDone
    /\ fnCall.arg = <<255, 256, 512, 1>>
    /\ fnOut.value = <<<<1, 2>>, <<3>>, <<4>>>>

SyllablesDone == fnCall.fn = "_count_syllables" /\ fnOut # NoOutcome
\* a non-empty word of the letters a to z only
LowercaseLettersOnly(w) == w # <<>> /\ \A i \in DOMAIN w : w[i] \in AsciiLowers

\* g: the maximal runs of vowels, counted by the places where one starts
VowelRuns(w) ==
    Cardinality({i \in DOMAIN w :
        w[i] \in SyllableVowels /\ (i = 1 \/ w[i - 1] \notin SyllableVowels)})

\* C25: for a lowercase letters-only word, _count_syllables is 1 for the, me, she,
\* he, be and we, and otherwise max(1, g - e + l): g the maximal vowel groups over
\* a, e, i, o, u, y, e = 1 iff the word ends in "e", l = 1 iff it has at least three
\* characters, ends in "le" and its third character from the end is not a vowel.
C25_SyllableFormula ==
    (SyllablesDone /\ LowercaseLettersOnly(fnCall.arg)) =>
        LET w == fnCall.arg
            n == Len(w)
            g == VowelRuns(w)
            e == IF w[n] = "e" THEN 1 ELSE 0
            l == IF n >= 3 /\ w[n] = "e" /\ w[n - 1] = "l" /\ w[n - 2] \notin SyllableVowels
                 THEN 1 ELSE 0
        IN  fnOut.value = (IF w \in SpecialWords THEN 1
                           ELSE IF g - e + l >= 1 THEN g - e + l ELSE 1)

\* C25 witness: "atle" has two vowel groups, a final e and a consonant before
\* "le", so 2 - 1 + 1 = 2
C25_Witness ==
    /\ SyllablesDone
    /\ fnCall.arg = <<"a", "t", "l", "e">>
    /\ fnOut.value = 2

CountsDone == fnCall.fn = "readability_counts" /\ fnOut # NoOutcome

\* C26: every token calculate_readability counts as a word adds at least one
\* syllable, so the syllable total is at least the word count.
C26_SyllablesAtLeastWords ==
    CountsDone => fnOut.value.syllable_count >= fnOut.value.word_count

\* the request r has answered
Answered(r) == req[r].pc = "done"
\* extract returns an error result on the document: its file is gone or cannot
\* be read
Unreadable(id) == ~uploadStore[id] \/ content[id] = "extract_error"

\* the request r has written the metadata of document id after an extraction of
\* its own that succeeded
WroteMetadata(r, id) ==
    \/ /\ req[r].op = "process" /\ req[r].id = id
       /\ req[r].pc = "write_results" \/ (req[r].pc = "done" /\ req[r].out.success)
    \/ /\ req[r].op = "batch"
       /\ \/ \E k \in DOMAIN req[r].results :
                req[r].results[k].document_id = id /\ req[r].results[k].success
          \/ /\ req[r].pc = "write_results"
             /\ req[r].ids[req[r].i] = id

\* C28: process_document on a stored document whose extraction returns an error
\* answers with a failure, leaves the metadata as it was (status 'uploaded', no
\* has_analysis) and writes no results; a status is 'processed' only when a
\* request whose own extraction succeeded has written it.
C28_ExtractionErrorWritesNothing ==
    /\ \A r \in Requests :
          (/\ req[r].op = "process" /\ Answered(r)
           /\ req[r].before.meta[req[r].id] # NoMetadata
           /\ Unreadable(req[r].id)) =>
              /\ ~req[r].out.success /\ req[r].out.code = 500
              /\ metaStore = req[r].before.meta
              /\ metaStore[req[r].id].status = "uploaded"
              /\ "has_analysis" \notin DOMAIN metaStore[req[r].id]
              /\ resultStore = req[r].before.results
              /\ ~resultStore[req[r].id]
    /\ \A id \in DocIds :
          metaStore[id].status = "processed" =>
              /\ \E r \in Requests : WroteMetadata(r, id)
              /\ content[id] = "good"

\* C28 witness: a process request on a stored document with an extraction error
\* has been answered
C28_Witness ==
    \E r \in Requests :
        /\ req[r].op = "process" /\ Answered(r)
        /\ req[r].before.meta[req[r].id] = UploadedMetadata(req[r].id)
        /\ content[req[r].id] = "extract_error"
        /\ req[r].out = Failure(500, "Extraction failed")

\* a delete request for the document has returned success
Deleted(id) ==
    \E r \in Requests :
        req[r].op = "delete" /\ req[r].id = id /\ Answered(r) /\ req[r].out.success

\* C29: once delete_document has returned success for an id, no metadata, no
\* stored file and no results of that id exist, whatever process_document or
\* batch_process request runs alongside.
C29_DeletedStaysDeleted ==
    \A id \in DocIds :
        Deleted(id) =>
            /\ metaStore[id] = NoMetadata
            /\ ~uploadStore[id]
            /\ ~resultStore[id]

\* the entry batch_process owes the k-th requested id, from the folders as the
\* request found them and the ids before it
BatchEntryFits(r, k) ==
    LET id == req[r].ids[k]
        e == req[r].out.results[k]
    IN  /\ e.document_id = id
        /\ IF req[r].before.meta[id] = NoMetadata
           THEN ~e.success /\ e.error = "Document not found"
           ELSE IF content[id] = "extract_error"
           THEN ~e.success /\ e.error = "Extraction failed"
           ELSE e.success

\* C30: batch_process returns one entry per requested id, in request order; a
\* missing or unreadable document gets a failure entry and the loop goes on; the
\* other ids are stored as processed with their results, and nothing else changes.
C30_OneEntryPerId ==
    \A r \in Requests :
        (req[r].op = "batch" /\ req[r].has_ids /\ Answered(r)) =>
            /\ req[r].out.success
            /\ Len(req[r].out.results) = Len(req[r].ids)
            /\ \A k \in DOMAIN req[r].ids : BatchEntryFits(r, k)
            /\ \A id \in DocIds :
                  IF /\ \E k \in DOMAIN req[r].ids : req[r].ids[k] = id
                     /\ req[r].before.meta[id] # NoMetadata
                     /\ content[id] # "extract_error"
                  THEN /\ metaStore[id].status = "processed"
                       /\ resultStore[id]
                  ELSE /\ metaStore[id] = req[r].before.meta[id]
                       /\ resultStore[id] = req[r].before.results[id]

\* C30 without the documents on which analyze raises: the statement holds for
\* every batch whose documents are good, missing or unreadable
BatchWithoutAnalyzeRaising ==
    (\A r \in Requests : \A k \in DOMAIN req[r].ids :
        content[req[r].ids[k]] # "analyze_raises") => C30_OneEntryPerId

====
